---- MODULE Spec2Model ----
(***************************************************************************)
(* Verification model of the jump-ai-agent tool-call pipeline:             *)
(*   - the proactive instruction matcher and its event handler             *)
(*     (lib/proactive-agent, src/unnamed/part_003),                        *)
(*   - the task-tracking tool executors of POST /api/query and of the      *)
(*     webhook handler (src/src/app/api/query/route.ts,                    *)
(*     src/src/app/api/webhooks/route.ts),                                 *)
(*   - the parse / validate / execute pipeline (lib/rag,                   *)
(*     src/unnamed/part_002, and the two routes).                          *)
(* Each subsystem has its own specification over the shared variables;     *)
(* a specification leaves the variables of the other subsystems fixed.     *)
(***************************************************************************)
EXTENDS Integers, Sequences, FiniteSets, TLC

VARIABLES
    \* ---- pure instruction matcher (SpecMatch)
    mInstruction,   \* the instruction text under test, a sequence of phrases
    mContext,       \* the ProactiveContext under test
    mResult,        \* the InstructionMatch returned, or NoResult
    \* ---- proactive event handler (SpecProactive)
    instructions,   \* OngoingInstruction table: id -> [text, isActive]
    hPc,            \* position of the handleProactiveEvent invocation
    hCtx,           \* the ProactiveContext it was invoked with
    hMatches,       \* the matches the for-loop iterates over
    hIdx,           \* loop index into hMatches
    hExecuted,      \* log of executeProactiveAction calls
    hActivity,      \* activityLog / notification rows written by the handler
    hChain,         \* handleProactiveEvent calls: [pending, raised, started]
    \* ---- tool executors and the Task table (SpecTasks)
    tasks,          \* Task table: id -> [userId, description, status]
    execs,          \* executor invocations: [kind, userId, key, byName, pc, taskId]
    \* ---- request pipeline: POST /api/query and the Gmail webhook (SpecPipeline)
    qPc,            \* position of the request being served
    qReq,           \* the request: path, query, the text the LLM returns
    qResp,          \* what generateRAGResponse / analyzeProactiveAction returned
    xIdx,           \* executeToolCallsSequentially: index of the for-of loop
    xRunning,       \* index of the call executeToolCall is awaiting, 0 if none
    xLog,           \* executionLog
    successCount,
    failureCount,
    xTrace,         \* start / finish events of executeToolCall, in time order
    xHanded,        \* calls handed to an executor: [path, call]
    accepted,       \* calls validateSingleToolCall has returned valid for
    finalResponse,  \* the response text returned to the user
    \* ---- LLMClient (SpecLlm)
    lProviders,     \* this.providers: the configured providers, in order
    lPc,            \* position of the generateResponse call
    lTemperature,   \* the temperature argument of the call
    lIdx,           \* index of the for-of loop over this.providers
    lErrors,        \* errors: one string per failed provider
    lCalls,         \* fetch calls made for the current request
    lResult,        \* what generateResponse returned or threw
    lRequests,      \* number of generateResponse calls made so far
    \* ---- parseEnhancedToolCalls on its own (SpecParse)
    pPc,            \* "idle", "input", "parsed", "reparsed"
    pResponse,      \* the response argument
    pQuery,         \* the query and intent arguments, NoResult when absent
    pCalls,         \* the ToolCall list returned
    pAgain,         \* the list returned by a second call on the same arguments
    \* ---- validateToolCalls on its own (SpecValidate)
    vPc,            \* "idle", "input", "returned", "threw"
    vInput,         \* the toolCalls argument
    vIdx,           \* index of the for-of loop
    vOutput,        \* validatedCalls
    vWarned,        \* console.warn lines: the reason and the index of each rejected call
    \* ---- analyzeQueryIntent on its own (SpecIntent)
    iPc,            \* "idle", "input", "returned"
    iQuery,         \* the query, a sequence of words
    iResult,        \* the intent returned
    \* ---- searchRelevantContext (SpecSearch)
    sPc,            \* "idle", "called", "awaiting", "returned"
    sIntentType,    \* intent.type
    sSearches,      \* searches: the started sub-searches, in start order
    sResult,        \* the documents returned
    \* ---- endpoints that write OngoingInstruction rows (SpecInstructions)
    removed,        \* ids of the rows that were deleted
    lastWrite,      \* the last update or delete: [by, owner, id, op], or NoResult
    \* ---- contact creation on new e-mail (SpecContacts)
    contacts,       \* HubSpot contacts created: [userId, email]
    cInv,           \* search-then-create invocations: [path, userId, email, pc]
    createCalls     \* createHubSpotContact calls made: [userId, email]

varsM == <<mInstruction, mContext, mResult>>
varsP == <<instructions, hPc, hCtx, hMatches, hIdx, hExecuted, hActivity, hChain>>
varsT == <<tasks, execs>>
varsX == <<xIdx, xRunning, xLog, successCount, failureCount, xTrace>>
varsQ == <<qPc, qReq, qResp, varsX, xHanded, accepted, finalResponse>>
varsL == <<lProviders, lPc, lTemperature, lIdx, lErrors, lCalls, lResult, lRequests>>
varsR == <<pPc, pResponse, pQuery, pCalls, pAgain>>
varsV == <<vPc, vInput, vIdx, vOutput, vWarned>>
varsI == <<iPc, iQuery, iResult>>
varsS == <<sPc, sIntentType, sSearches, sResult>>
varsW == <<removed, lastWrite>>
varsC == <<contacts, cInv, createCalls>>
varsNew == <<varsI, varsS, varsW, varsC>>
vars  == <<varsM, varsP, varsT, varsQ, varsL, varsR, varsV, varsNew>>
varsNotM == <<varsP, varsT, varsQ, varsL, varsR, varsV, varsNew>>
varsNotP == <<varsM, varsT, varsQ, varsL, varsR, varsV, varsNew>>
varsNotT == <<varsM, varsP, varsQ, varsL, varsR, varsV, varsNew>>
varsNotQ == <<varsM, varsT, hPc, hCtx, hMatches, hIdx, hExecuted, hActivity, hChain, varsL, varsR, varsV, varsNew>>
varsNotL == <<varsM, varsP, varsT, varsQ, varsR, varsV, varsNew>>
varsNotR == <<varsM, varsP, varsT, varsQ, varsL, varsV, varsNew>>
varsNotV == <<varsM, varsP, varsT, varsQ, varsL, varsR, varsNew>>
varsOld == <<varsM, varsP, varsT, varsQ, varsL, varsR, varsV>>
varsNotI == <<varsOld, varsS, varsW, varsC>>
varsNotS == <<varsOld, varsI, varsW, varsC>>
varsNotC == <<varsOld, varsI, varsS, varsW>>
varsNotW == <<varsM, varsT, varsQ, varsL, varsR, varsV, varsI, varsS, varsC, hPc, hCtx, hMatches, hIdx, hExecuted, hActivity, hChain>>

\* bounds of the model
MaxTextLen == 2
MaxInstr   == 2
MaxExec    == 2
MaxObjects == 2
MaxRequests == 2
MaxCalls == 2
MaxWords == 4

\* confidence values in tenths: 0.9 -> 9, 0.7 -> 7
MatchConfidence == 9
Threshold       == 7

Null      == "null"
Undefined == "undefined"
NoResult  == [none |-> TRUE]

(***************************************************************************)
(* Instruction texts.  A text is a sequence of phrases; each phrase stands *)
(* for a lower-cased fragment of an instruction.  For every pattern of the *)
(* library, HeadOf gives the phrases its regex prefix (up to ".*") matches *)
(* and TailOf the phrases containing a substring its alternation after     *)
(* ".*" matches.                                                           *)
(*   p_someone_emails  "when someone emails me"                            *)
(*   p_not_in_hubspot  "who is not in hubspot"                             *)
(*   p_create_contact  "when i create a contact in hubspot"                *)
(*   p_send_email      "send them a welcome email"                         *)
(*   p_sched_meeting   "when i schedule a meeting"                         *)
(*   p_i_send_email    "when i send an email"                              *)
(*   p_add_note        "when i add a note"                                 *)
(*   p_no_avail        "when i have no availability"                       *)
(*   p_suggest         "suggest other times"                               *)
(*   p_email_contact   "when i email a contact"                            *)
(*   p_track           "track it"                                          *)
(*   p_meet_contact    "when i meet with a contact"                        *)
(*   p_with_note       "with a note"                                       *)
(***************************************************************************)
Phrases ==
    {"p_someone_emails", "p_not_in_hubspot", "p_create_contact", "p_send_email",
     "p_sched_meeting", "p_i_send_email", "p_add_note", "p_no_avail",
     "p_suggest", "p_email_contact", "p_track", "p_meet_contact", "p_with_note"}

\* phrases containing "send" or "email"
SendOrEmail == {"p_someone_emails", "p_send_email", "p_i_send_email", "p_email_contact"}

PatternNames ==
    <<"emailNotInHubspot", "contactCreated", "calendarEvent", "emailSent",
      "meetingScheduled", "noteAdded", "noAvailability", "contactEmailSent",
      "meetingWithContact">>

HeadOf(type) ==
    CASE type = "emailNotInHubspot"  -> {"p_someone_emails"}
      [] type = "contactCreated"     -> {"p_create_contact"}
      [] type = "calendarEvent"      -> {"p_sched_meeting"}
      [] type = "emailSent"          -> {"p_i_send_email"}
      [] type = "meetingScheduled"   -> {"p_sched_meeting"}
      [] type = "noteAdded"          -> {"p_add_note"}
      [] type = "noAvailability"     -> {"p_no_avail"}
      [] type = "contactEmailSent"   -> {"p_email_contact"}
      [] type = "meetingWithContact" -> {"p_meet_contact"}

TailOf(type) ==
    CASE type = "emailNotInHubspot"  -> {"p_not_in_hubspot"}
      [] type = "contactCreated"     -> SendOrEmail
      [] type = "calendarEvent"      -> SendOrEmail
      [] type = "emailSent"          -> {"p_add_note"}
      [] type = "meetingScheduled"   -> SendOrEmail
      [] type = "noteAdded"          -> SendOrEmail
      [] type = "noAvailability"     -> {"p_suggest"}
      [] type = "contactEmailSent"   -> {"p_track"}
      [] type = "meetingWithContact" -> SendOrEmail

requiredEvent(type) ==
    CASE type = "emailNotInHubspot"  -> "new_email"
      [] type = "contactCreated"     -> "contact_created"
      [] type = "calendarEvent"      -> "event_created"
      [] type = "emailSent"          -> "email_sent"
      [] type = "meetingScheduled"   -> "meeting_scheduled"
      [] type = "noteAdded"          -> "note_added"
      [] type = "noAvailability"     -> "no_availability_found"
      [] type = "contactEmailSent"   -> "email_sent"
      [] type = "meetingWithContact" -> "meeting_scheduled"

requiredService(type) ==
    CASE type = "emailNotInHubspot"  -> "gmail"
      [] type = "contactCreated"     -> "hubspot"
      [] type = "calendarEvent"      -> "calendar"
      [] type = "emailSent"          -> "gmail"
      [] type = "meetingScheduled"   -> "calendar"
      [] type = "noteAdded"          -> "hubspot"
      [] type = "noAvailability"     -> "calendar"
      [] type = "contactEmailSent"   -> "gmail"
      [] type = "meetingWithContact" -> "calendar"

\* config.pattern.test(instructionText): the head, then ".*", then the tail
PatternTest(type, text) ==
    \E i \in DOMAIN text : \E j \in DOMAIN text :
        i < j /\ text[i] \in HeadOf(type) /\ text[j] \in TailOf(type)

(***************************************************************************)
(* Event payloads.  senderName is the sequence of words split(' ') gives;  *)
(* the empty sequence stands for an absent or empty name, and for the null *)
(* a name field gets from "|| null".                                       *)
(***************************************************************************)
EventNames ==
    {"new_email", "contact_created", "event_created", "email_sent",
     "meeting_scheduled", "note_added", "no_availability_found"}
ServiceNames == {"gmail", "hubspot", "calendar"}

EventData ==
    { [senderEmail |-> "x@y.com", senderName |-> <<"X", "Y">>, email |-> "c@d.io",
       summary |-> "Review"],
      [senderEmail |-> Undefined, senderName |-> <<>>, email |-> Undefined,
       summary |-> Undefined] }

EmptyParams ==
    [action |-> Undefined, email |-> Undefined, firstName |-> <<>>,
     lastName |-> <<>>, addNote |-> FALSE, contactEmail |-> Undefined,
     eventTitle |-> Undefined]

extractEmailToContactParams(text, emailData) ==
    [EmptyParams EXCEPT
        !.action    = "create_contact_from_email",
        !.email     = emailData.senderEmail,
        !.firstName = IF emailData.senderName = <<>>
                      THEN <<>> ELSE <<Head(emailData.senderName)>>,
        !.lastName  = IF emailData.senderName = <<>>
                      THEN <<>> ELSE Tail(emailData.senderName),
        !.addNote   = \E i \in DOMAIN text : text[i] = "p_with_note"]

extractContactCreatedParams(text, contactData) ==
    [EmptyParams EXCEPT
        !.action       = "send_welcome_email",
        !.contactEmail = contactData.email]

extractCalendarEventParams(text, eventData) ==
    [EmptyParams EXCEPT
        !.action     = "notify_attendees",
        !.eventTitle = eventData.summary]

\* the loop body without the test of requiredService
MatchStepEventOnly(best, type, text, context) ==
    IF PatternTest(type, text) /\ context.event = requiredEvent(type)
    THEN [confidence |-> MatchConfidence,
          extractedParams |->
            CASE type = "emailNotInHubspot" -> extractEmailToContactParams(text, context.data)
              [] type = "contactCreated"    -> extractContactCreatedParams(text, context.data)
              [] type = "calendarEvent"     -> extractCalendarEventParams(text, context.data)
              [] OTHER                      -> best.extractedParams]
    ELSE best

\* the loop body without the tests of requiredEvent and requiredService
MatchStepTextOnly(best, type, text, context) ==
    IF PatternTest(type, text)
    THEN [confidence |-> MatchConfidence,
          extractedParams |->
            CASE type = "emailNotInHubspot" -> extractEmailToContactParams(text, context.data)
              [] type = "contactCreated"    -> extractContactCreatedParams(text, context.data)
              [] type = "calendarEvent"     -> extractCalendarEventParams(text, context.data)
              [] OTHER                      -> best.extractedParams]
    ELSE best

\* one iteration of the loop over Object.entries(patterns): bestMatch is overwritten
MatchStep(best, type, text, context) ==
    IF PatternTest(type, text)
       /\ context.event = requiredEvent(type) /\ context.service = requiredService(type)
    THEN [confidence |-> MatchConfidence,
          extractedParams |->
            CASE type = "emailNotInHubspot" -> extractEmailToContactParams(text, context.data)
              [] type = "contactCreated"    -> extractContactCreatedParams(text, context.data)
              [] type = "calendarEvent"     -> extractCalendarEventParams(text, context.data)
              [] OTHER                      -> best.extractedParams]
    ELSE best

RECURSIVE MatchLoop(_, _, _, _)
MatchLoop(best, k, text, context) ==
    IF k > Len(PatternNames) THEN best
    ELSE MatchLoop(MatchStep(best, PatternNames[k], text, context), k + 1, text, context)

\* analyzeInstructionMatch(context, instruction); confidences are in tenths
analyzeInstructionMatch(context, instruction) ==
    LET bestMatch == MatchLoop([confidence |-> 0, extractedParams |-> EmptyParams],
                               1, instruction.text, context)
    IN  [instruction     |-> instruction,
         confidence      |-> bestMatch.confidence,
         extractedParams |-> bestMatch.extractedParams]

(***************************************************************************)
(* SpecMatch: analyzeInstructionMatch as a pure function of its inputs.    *)
(***************************************************************************)
RECURSIVE TextsUpTo(_)
TextsUpTo(n) ==
    IF n = 0 THEN {<<>>}
    ELSE LET shorter == TextsUpTo(n - 1)
         IN  shorter \cup {Append(t, p) : t \in shorter, p \in Phrases}

Contexts ==
    [event : EventNames, service : ServiceNames, data : EventData, userId : {"u1"}]

\* no handleProactiveEvent call has been made
NoChain == [pending |-> <<>>, raised |-> 0, started |-> 0]

InitProactiveIdle ==
    /\ instructions = <<>>
    /\ hPc = "idle" /\ hCtx = NoResult /\ hMatches = <<>> /\ hIdx = 1
    /\ hExecuted = <<>> /\ hActivity = <<>>
    /\ hChain = NoChain

InitTasksIdle ==
    tasks = <<>> /\ execs = <<>>

InitPipelineIdle ==
    /\ qPc = "idle" /\ qReq = NoResult /\ qResp = NoResult
    /\ xIdx = 1 /\ xRunning = 0 /\ xLog = <<>>
    /\ successCount = 0 /\ failureCount = 0 /\ xTrace = <<>>
    /\ xHanded = <<>> /\ accepted = {} /\ finalResponse = NoResult

InitIntentIdle ==
    /\ iPc = "idle" /\ iQuery = <<>> /\ iResult = NoResult

InitSearchIdle ==
    /\ sPc = "idle" /\ sIntentType = "general" /\ sSearches = <<>> /\ sResult = <<>>

InitWritesIdle ==
    /\ removed = {} /\ lastWrite = NoResult

InitContactsIdle ==
    /\ contacts = <<>> /\ cInv = <<>> /\ createCalls = <<>>

InitRestIdle ==
    /\ InitIntentIdle
    /\ InitSearchIdle
    /\ InitWritesIdle
    /\ InitContactsIdle

InitParseIdle ==
    /\ pPc = "idle" /\ pResponse = NoResult /\ pQuery = NoResult
    /\ pCalls = <<>> /\ pAgain = <<>>

InitValidateIdle ==
    /\ vPc = "idle" /\ vInput = <<>> /\ vIdx = 1 /\ vOutput = <<>> /\ vWarned = <<>>

InitLlmIdle ==
    /\ lProviders = <<>> /\ lPc = "idle" /\ lTemperature = 0 /\ lIdx = 1
    /\ lErrors = <<>> /\ lCalls = <<>> /\ lResult = NoResult /\ lRequests = 0

InitMatch ==
    /\ mInstruction \in [id : {1}, text : TextsUpTo(MaxTextLen), userId : {"u1"},
                         isActive : {TRUE}]
    /\ mContext \in Contexts
    /\ mResult = NoResult
    /\ InitProactiveIdle
    /\ InitTasksIdle
    /\ InitPipelineIdle
    /\ InitLlmIdle
    /\ InitParseIdle
    /\ InitValidateIdle
    /\ InitRestIdle

ApplyMatch ==
    /\ mResult = NoResult
    /\ mResult' = analyzeInstructionMatch(mContext, mInstruction)
    /\ UNCHANGED <<mInstruction, mContext, varsNotM>>

NextMatch == ApplyMatch

SpecMatch == InitMatch /\ [][NextMatch]_vars

(***************************************************************************)
(* SpecProactive: one invocation of handleProactiveEvent running against   *)
(* the OngoingInstruction table while instructions are created and         *)
(* patched by concurrent requests.  The table is a sequence in creation    *)
(* order; an instruction's id is its index.                                *)
(***************************************************************************)
Users == {"u1", "u2"}

InstrTexts ==
    { <<"p_someone_emails", "p_not_in_hubspot">>,
      <<"p_sched_meeting", "p_send_email">>,
      <<"p_with_note">> }

HandlerContexts ==
    { c \in Contexts :
        /\ c.data.senderEmail = "x@y.com"
        /\ <<c.event, c.service>> \in
              { <<"new_email", "gmail">>, <<"event_created", "calendar">>,
                <<"new_email", "calendar">> } }

RECURSIVE Reverse(_)
Reverse(s) == IF s = <<>> THEN <<>> ELSE Append(Reverse(Tail(s)), Head(s))

IsActiveOf(userId, inst) == inst.userId = userId /\ inst.isActive
IsOf(userId, inst)       == inst.userId = userId

\* findMany without the isActive filter
findManyAnyState(table, userId) ==
    LET ids == [i \in DOMAIN table |-> [id |-> i, text |-> table[i].text,
                                        userId |-> table[i].userId,
                                        isActive |-> table[i].isActive]]
    IN  Reverse(SelectSeq(ids, LAMBDA inst : IsOf(userId, inst)))

\* prisma.ongoingInstruction.findMany({where: {userId, isActive: true},
\*   orderBy: {createdAt: 'desc'}})
findManyActive(table, userId) ==
    LET ids == [i \in DOMAIN table |-> [id |-> i, text |-> table[i].text,
                                        userId |-> table[i].userId,
                                        isActive |-> table[i].isActive]]
    IN  Reverse(SelectSeq(ids, LAMBDA inst : IsActiveOf(userId, inst)))

\* matches.sort((a, b) => b.confidence - a.confidence): a stable sort
RECURSIVE InsertByConfidence(_, _)
InsertByConfidence(sorted, m) ==
    IF sorted = <<>> THEN <<m>>
    ELSE IF Head(sorted).confidence >= m.confidence
         THEN <<Head(sorted)>> \o InsertByConfidence(Tail(sorted), m)
         ELSE <<m>> \o sorted

RECURSIVE SortByConfidence(_)
SortByConfidence(ms) ==
    IF ms = <<>> THEN <<>>
    ELSE InsertByConfidence(SortByConfidence(SubSeq(ms, 1, Len(ms) - 1)), ms[Len(ms)])

analyzeEventAgainstInstructions(context, insts) ==
    LET all == [i \in DOMAIN insts |-> analyzeInstructionMatch(context, insts[i])]
    IN  SortByConfidence(SelectSeq(all, LAMBDA m : m.confidence > 0))

\* every instruction's match is dispatched, whatever its confidence
matchesOfAllInstructions(context, insts) ==
    [i \in DOMAIN insts |-> analyzeInstructionMatch(context, insts[i])]

\* the matches the loop of handleProactiveEvent passes to executeProactiveAction
matchesToExecute(context, insts) ==
    SelectSeq(analyzeEventAgainstInstructions(context, insts),
              LAMBDA m : m.confidence > Threshold)

\* the e-mails of the actions sent through executeSendEmail, which calls
\* handleProactiveEvent with email_sent once the message is out
eventsRaisedThroughExecutor(context, match) ==
    IF match.extractedParams.action \in {"send_welcome_email", "notify_attendees"}
    THEN <<[context EXCEPT !.event = "email_sent", !.service = "gmail"]>>
    ELSE <<>>

\* the handleProactiveEvent calls made while executeProactiveAction runs the
\* action of a match: handleCreateContactFromEmail, handleSendWelcomeEmail and
\* handleNotifyAttendees call searchHubSpotContact, createHubSpotContact,
\* addHubSpotNote and sendGmailEmail of the client libraries, never a tool
\* executor and never handleProactiveEvent
eventsRaisedBy(context, match) == <<>>

\* executeProactiveAction calls an external client only in its three cases
CallsExternal(match) ==
    match.extractedParams.action \in
        {"create_contact_from_email", "send_welcome_email", "notify_attendees"}

InitProactive ==
    /\ mInstruction = NoResult /\ mContext = NoResult /\ mResult = NoResult
    /\ InitProactiveIdle
    /\ InitTasksIdle
    /\ InitPipelineIdle
    /\ InitLlmIdle
    /\ InitParseIdle
    /\ InitValidateIdle
    /\ InitRestIdle

\* POST /api/instructions, or POST /api/query storing a conditional instruction
CreateInstruction(userId, text) ==
    /\ Len(instructions) < MaxInstr
    /\ instructions' = Append(instructions,
                              [userId |-> userId, text |-> text, isActive |-> TRUE])
    /\ UNCHANGED <<hPc, hCtx, hMatches, hIdx, hExecuted, hActivity, hChain, varsNotP>>

\* PATCH /api/instructions/[id] with updates.isActive
PatchIsActive(userId, id, isActive) ==
    /\ id \in DOMAIN instructions
    /\ instructions[id].userId = userId
    /\ instructions' = [instructions EXCEPT ![id].isActive = isActive]
    /\ UNCHANGED <<hPc, hCtx, hMatches, hIdx, hExecuted, hActivity, hChain, varsNotP>>

\* PATCH /api/instructions/[id] with updates.instruction
PatchText(userId, id, text) ==
    /\ id \in DOMAIN instructions
    /\ instructions[id].userId = userId
    /\ instructions' = [instructions EXCEPT ![id].text = text]
    /\ UNCHANGED <<hPc, hCtx, hMatches, hIdx, hExecuted, hActivity, hChain, varsNotP>>

\* a webhook or a tool executor calls handleProactiveEvent(context)
HandleEvent(context) ==
    /\ hPc = "idle"
    /\ hPc' = "find"
    /\ hCtx' = context
    /\ UNCHANGED <<instructions, hMatches, hIdx, hExecuted, hActivity, hChain, varsNotP>>

\* findMany, then analyzeEventAgainstInstructions on the rows read
FindAndAnalyze ==
    /\ hPc = "find"
    /\ hMatches' = matchesToExecute(hCtx, findManyActive(instructions, hCtx.userId))
    /\ hIdx' = 1
    /\ hPc' = "loop"
    /\ UNCHANGED <<instructions, hCtx, hExecuted, hActivity, hChain, varsNotP>>

LogEntry(match, outcome) ==
    [instruction  |-> match.instruction,
     confidence   |-> match.confidence,
     action       |-> match.extractedParams.action,
     outcome      |-> outcome,
     activeAtExec |-> instructions[match.instruction.id].isActive]

\* await executeProactiveAction(context, match) returns
ExecuteOk ==
    /\ hPc = "loop" /\ hIdx <= Len(hMatches)
    /\ hExecuted' = Append(hExecuted, LogEntry(hMatches[hIdx], "ok"))
    /\ hActivity' = Append(hActivity, "proactive_action_executed")
    /\ hIdx' = hIdx + 1
    /\ hChain' = [hChain EXCEPT !.pending = @ \o eventsRaisedBy(hCtx, hMatches[hIdx])]
    /\ UNCHANGED <<instructions, hPc, hCtx, hMatches, varsNotP>>

\* executeProactiveAction rethrows: control leaves the loop for the catch block
ExecuteThrows ==
    /\ hPc = "loop" /\ hIdx <= Len(hMatches)
    /\ CallsExternal(hMatches[hIdx])
    /\ hExecuted' = Append(hExecuted, LogEntry(hMatches[hIdx], "threw"))
    /\ hPc' = "catch"
    /\ UNCHANGED <<instructions, hCtx, hMatches, hIdx, hActivity, hChain, varsNotP>>

LoopExit ==
    /\ hPc = "loop" /\ hIdx > Len(hMatches)
    /\ hPc' = "contextual"
    /\ UNCHANGED <<instructions, hCtx, hMatches, hIdx, hExecuted, hActivity, hChain, varsNotP>>

\* handleContextualResponse: returns at once unless a new gmail email asks about
\* a meeting and the calendar search finds one; then it sends the auto-reply
ContextualNone ==
    /\ hPc = "contextual"
    /\ hPc' = "done"
    /\ UNCHANGED <<instructions, hCtx, hMatches, hIdx, hExecuted, hActivity, hChain, varsNotP>>

ContextualReply ==
    /\ hPc = "contextual"
    /\ hCtx.service = "gmail" /\ hCtx.event = "new_email"
    /\ hActivity' = Append(hActivity, "auto_response_sent")
    /\ hPc' = "done"
    /\ UNCHANGED <<instructions, hCtx, hMatches, hIdx, hExecuted, hChain, varsNotP>>

ContextualThrows ==
    /\ hPc = "contextual"
    /\ hCtx.service = "gmail" /\ hCtx.event = "new_email"
    /\ hPc' = "catch"
    /\ UNCHANGED <<instructions, hCtx, hMatches, hIdx, hExecuted, hActivity, hChain, varsNotP>>

\* catch (error): activityLog row proactive_action_failed
CatchError ==
    /\ hPc = "catch"
    /\ hActivity' = Append(hActivity, "proactive_action_failed")
    /\ hPc' = "done"
    /\ UNCHANGED <<instructions, hCtx, hMatches, hIdx, hExecuted, hChain, varsNotP>>

NextProactive ==
    \/ \E u \in Users, t \in InstrTexts : CreateInstruction(u, t)
    \/ \E u \in Users, i \in 1..MaxInstr, b \in BOOLEAN : PatchIsActive(u, i, b)
    \/ \E u \in Users, i \in 1..MaxInstr, t \in InstrTexts : PatchText(u, i, t)
    \/ \E c \in HandlerContexts : HandleEvent(c)
    \/ FindAndAnalyze
    \/ ExecuteOk
    \/ ExecuteThrows
    \/ LoopExit
    \/ ContextualNone
    \/ ContextualReply
    \/ ContextualThrows
    \/ CatchError

SpecProactive == InitProactive /\ [][NextProactive]_vars

(***************************************************************************)
(* Tool executors and the Task table.  Every executor creates a Task row   *)
(* with status in_progress, awaits the external API, and then writes the   *)
(* final status.  Requests of the same or of different users run           *)
(* concurrently; each await is a point where another invocation can run.   *)
(* A description is a sequence of the pieces its template is built from.   *)
(***************************************************************************)

ExecKinds == {"send_email", "create_calendar_event", "schedule_meeting_with_contact",
              "create_contact", "add_contact_note", "proactive"}

\* the parameters that decide the task row and the failure filter: key is the
\* recipient, title, contact identifier, name, contact id or action name;
\* byName says a send_email call gives contactName instead of to
ExecInputs ==
    { [kind |-> "send_email", userId |-> "u1", key |-> "k1", byName |-> FALSE],
      [kind |-> "send_email", userId |-> "u1", key |-> "k2", byName |-> TRUE],
      [kind |-> "send_email", userId |-> "u1", key |-> Undefined, byName |-> FALSE],
      [kind |-> "create_calendar_event", userId |-> "u1", key |-> "k1", byName |-> FALSE],
      [kind |-> "create_calendar_event", userId |-> "u1", key |-> Undefined, byName |-> FALSE],
      [kind |-> "schedule_meeting_with_contact", userId |-> "u1", key |-> "k1", byName |-> FALSE],
      [kind |-> "create_contact", userId |-> "u1", key |-> "k1", byName |-> FALSE],
      [kind |-> "add_contact_note", userId |-> "u1", key |-> "k1", byName |-> FALSE],
      [kind |-> "add_contact_note", userId |-> "u2", key |-> Undefined, byName |-> FALSE],
      [kind |-> "proactive", userId |-> "u1", key |-> "send_email", byName |-> FALSE],
      [kind |-> "proactive", userId |-> "u1", key |-> "unknown_tool", byName |-> FALSE] }

\* the email address searchHubSpotContact resolves a contact name to
EmailOf(name) ==
    CASE name = "k1" -> "k1@mail.com" [] name = "k2" -> "k2@mail.com" [] OTHER -> Undefined

\* description: { contains: pattern }
Contains(description, pattern) ==
    \E i \in 1..(Len(description) - Len(pattern) + 1) :
        SubSeq(description, i, i + Len(pattern) - 1) = pattern

\* the description of the Task row each executor creates
taskDescription(e) ==
    CASE e.kind = "send_email" ->
            <<"Send email", "to", IF e.byName THEN EmailOf(e.key) ELSE e.key, "-", "subject">>
      [] e.kind = "create_calendar_event" -> <<"Create calendar event:", e.key>>
      [] e.kind = "schedule_meeting_with_contact" ->
            <<"Create meeting with", e.key, "(", EmailOf(e.key), ")">>
      [] e.kind = "create_contact" -> <<"Create contact:", e.key, "(", "email", ")">>
      [] e.kind = "add_contact_note" -> <<"Add note to contact">>
      [] e.kind = "proactive" -> <<"Proactive action:", e.key>>

\* the executor returns a failure result before it creates a Task row
CanReturnEarly(e) ==
    \/ e.kind = "send_email" /\ (e.key = Undefined \/ e.byName)
    \/ e.kind = "schedule_meeting_with_contact"

\* the executor throws before it creates a Task row
ThrowsEarly(e) ==
    e.kind = "create_calendar_event" /\ e.key = Undefined

\* the executor throws after creating the row whatever the external API does
MustThrow(e) ==
    \/ e.kind = "add_contact_note" /\ e.key = Undefined
    \/ e.kind = "proactive" /\ e.key \notin {"send_email", "create_contact",
                                            "add_contact_note", "create_calendar_event"}

\* prisma.task.update({ where: { id }, data: { status } })
updateById(table, id, status) ==
    [table EXCEPT ![id].status = status]

\* prisma.task.updateMany({ where: { userId, description, status: 'in_progress' },
\*                          data: { status: 'failed' } })
updateManyFailed(table, userId, pattern, exact) ==
    [t \in DOMAIN table |->
        IF /\ table[t].userId = userId
           /\ table[t].status = "in_progress"
           /\ IF exact THEN table[t].description = pattern
                       ELSE Contains(table[t].description, pattern)
        THEN [table[t] EXCEPT !.status = "failed"]
        ELSE table[t]]

\* the catch block of each executor
catchUpdate(table, e) ==
    CASE e.kind = "send_email" ->
            updateManyFailed(table, e.userId,
                IF e.key # Undefined /\ ~e.byName THEN <<"Send email", "to", e.key>>
                                                  ELSE <<"Send email">>, FALSE)
      [] e.kind = "create_calendar_event" ->
            updateManyFailed(table, e.userId,
                <<"Create calendar event:",
                  IF e.key # Undefined THEN e.key ELSE "Unknown Event">>, FALSE)
      [] e.kind = "create_contact" ->
            updateManyFailed(table, e.userId, <<"Create contact:", e.key>>, FALSE)
      [] e.kind = "add_contact_note" ->
            updateManyFailed(table, e.userId, <<"Add note to contact">>, TRUE)
      [] e.kind = "schedule_meeting_with_contact" -> table
      [] e.kind = "proactive" ->
            IF e.taskId # 0 THEN updateById(table, e.taskId, "failed") ELSE table

InitTasks ==
    /\ mInstruction = NoResult /\ mContext = NoResult /\ mResult = NoResult
    /\ InitProactiveIdle
    /\ InitTasksIdle
    /\ InitPipelineIdle
    /\ InitLlmIdle
    /\ InitParseIdle
    /\ InitValidateIdle
    /\ InitRestIdle

\* executeToolCall, the POST handler or the webhook calls an executor
Dispatch(input) ==
    /\ Len(execs) < MaxExec
    /\ execs' = Append(execs, [kind |-> input.kind, userId |-> input.userId,
                               key |-> input.key, byName |-> input.byName,
                               pc |-> "entry", taskId |-> 0, success |-> FALSE])
    /\ UNCHANGED <<tasks, varsNotT>>

\* a missing parameter or an unknown contact: return { success: false }
ReturnEarly(x) ==
    /\ execs[x].pc = "entry"
    /\ CanReturnEarly(execs[x])
    /\ execs' = [execs EXCEPT ![x].pc = "returned"]
    /\ UNCHANGED <<tasks, varsNotT>>

ThrowEarly(x) ==
    /\ execs[x].pc = "entry"
    /\ ThrowsEarly(execs[x])
    /\ execs' = [execs EXCEPT ![x].pc = "catch"]
    /\ UNCHANGED <<tasks, varsNotT>>

\* prisma.task.create({ data: { userId, description, status: 'in_progress' } })
CreateTask(x) ==
    /\ execs[x].pc = "entry"
    /\ ~ThrowsEarly(execs[x])
    /\ ~(execs[x].kind = "send_email" /\ execs[x].key = Undefined)
    /\ tasks' = Append(tasks, [userId |-> execs[x].userId,
                               description |-> taskDescription(execs[x]),
                               status |-> "in_progress"])
    /\ execs' = [execs EXCEPT ![x].pc = "calling", ![x].taskId = Len(tasks) + 1]
    /\ UNCHANGED varsNotT

\* the Gmail / Calendar / HubSpot call returns
ExternalReturns(x) ==
    /\ execs[x].pc = "calling"
    /\ ~MustThrow(execs[x])
    /\ execs' = [execs EXCEPT ![x].pc = "update"]
    /\ UNCHANGED <<tasks, varsNotT>>

\* the Gmail / Calendar / HubSpot call, or the executor's own check, throws
ExternalThrows(x) ==
    /\ execs[x].pc = "calling"
    /\ execs' = [execs EXCEPT ![x].pc = "catch"]
    /\ UNCHANGED <<tasks, varsNotT>>

\* prisma.task.update to completed, then return { success: true }
UpdateCompleted(x) ==
    /\ execs[x].pc = "update"
    /\ tasks' = updateById(tasks, execs[x].taskId, "completed")
    /\ execs' = [execs EXCEPT ![x].pc = "returned", ![x].success = TRUE]
    /\ UNCHANGED varsNotT

\* the catch block, then return { success: false }
CatchFailed(x) ==
    /\ execs[x].pc = "catch"
    /\ tasks' = catchUpdate(tasks, execs[x])
    /\ execs' = [execs EXCEPT ![x].pc = "returned"]
    /\ UNCHANGED varsNotT

NextTasks ==
    \/ \E input \in ExecInputs : Dispatch(input)
    \/ \E x \in DOMAIN execs : ReturnEarly(x)
    \/ \E x \in DOMAIN execs : ThrowEarly(x)
    \/ \E x \in DOMAIN execs : CreateTask(x)
    \/ \E x \in DOMAIN execs : ExternalReturns(x)
    \/ \E x \in DOMAIN execs : ExternalThrows(x)
    \/ \E x \in DOMAIN execs : UpdateCompleted(x)
    \/ \E x \in DOMAIN execs : CatchFailed(x)

SpecTasks == InitTasks /\ [][NextTasks]_vars

\* C5 (as claimed): when an executor dispatch has returned, the task it created
\* is completed or failed.
C5_TaskSettledOnReturn ==
    \A x \in DOMAIN execs :
        (execs[x].pc = "returned" /\ execs[x].taskId # 0)
            => tasks[execs[x].taskId].status \in {"completed", "failed"}

\* C6 (as claimed): a task that is completed or failed never changes status again.
C6_TerminalStatusIsFinal ==
    [][\A t \in DOMAIN tasks :
          tasks[t].status \in {"completed", "failed"}
              => tasks'[t].status = tasks[t].status]_vars

(***************************************************************************)
(* The request pipeline: POST /api/query (query -> generateRAGResponse ->  *)
(* parseEnhancedToolCalls -> validateToolCalls ->                          *)
(* executeToolCallsSequentially -> response) and the Gmail webhook         *)
(* (analyzeProactiveAction -> executeProactiveAction).                     *)
(*                                                                         *)
(* A query is the record of what the code tests on its text.  The text the *)
(* LLM returns is the set of marker phrases it contains and the sequence   *)
(* of JSON objects in it, in text order; an object is written with its     *)
(* keys in the order tool, parameters, response, its parameters object is  *)
(* flat and the value of a response key is an object.                      *)
(***************************************************************************)

\* parameters of a tool call; a key the JSON does not have is Undefined, and an
\* object without a parameters key has NoResult for it
NoParams ==
    [to |-> Undefined, contactName |-> Undefined, subject |-> Undefined,
     body |-> Undefined, title |-> Undefined, contactEmail |-> Undefined,
     contactId |-> Undefined, email |-> Undefined, note |-> Undefined,
     query |-> Undefined, name |-> Undefined, firstName |-> Undefined,
     lastName |-> Undefined, start |-> Undefined, end |-> Undefined]

\* values that are not strings: a JSON number and a JSON array of one string
NumberValue == "<number 42>"
ArrayValue  == "<array of ok@mail.com>"

IsString(value) == value \notin {Undefined, NumberValue, ArrayValue}

\* value.includes exists on strings and arrays, value.trim on strings only
HasIncludes(value) == value # NumberValue
HasTrim(value) == IsString(value)

\* string tests of the validator on the values used here
Includes(value, needle) ==
    CASE needle = "@" -> value \in {"ok@mail.com", "user@example.com", "USER@EXAMPLE.COM",
                                    "placeholder@mail.com"}
      [] needle = "example.com" -> value = "user@example.com"
      [] needle = "[" -> value \in {"Hi [Your Name]", "[Email Address]"}
      [] needle = "[Your Name]" -> value = "Hi [Your Name]"
      [] OTHER -> FALSE

Falsy(value) == value \in {Undefined, ""}

\* value.trim().length === 0
Blank(value) == value \in {"", "   "}

\* one of the six case-insensitive criticalPlaceholders patterns matches String(value)
MatchesCriticalPlaceholder(value) ==
    value \in {"user@example.com", "USER@EXAMPLE.COM", "[Email Address]",
               "placeholder@mail.com"}

\* a validator whose criticalPlaceholders list is empty
hasNoCriticalPlaceholders(parameters) == FALSE

\* criticalPlaceholders.some(pattern => pattern.test(parameters.to || ''))
hasCriticalPlaceholdersInTo(parameters) ==
    ~Falsy(parameters.to) /\ MatchesCriticalPlaceholder(parameters.to)

replaceCommonPlaceholders(emailBody) ==
    IF emailBody = "Hi [Your Name]" THEN "Hi Your Financial Advisor" ELSE emailBody

\* validateSingleToolCall: [valid, reason, throws, call], call being the object
\* after the in-place rewrite of parameters.body; throws is a TypeError raised
\* by a method call on a value that has no such method
validateSingleToolCall(toolCall) ==
    LET name == toolCall.name
        parameters == toolCall.parameters
        no(reason) == [valid |-> FALSE, reason |-> reason, throws |-> FALSE, call |-> toolCall]
        yes == [valid |-> TRUE, reason |-> Undefined, throws |-> FALSE, call |-> toolCall]
        typeError == [valid |-> FALSE, reason |-> Undefined, throws |-> TRUE, call |-> toolCall]
    IN  IF name \in {"get_all_contacts", "get_all_contacts_with_notes"} THEN yes
        ELSE IF hasCriticalPlaceholdersInTo(parameters)
        THEN no("Email recipient contains placeholder values")
        ELSE CASE name = "send_email" ->
                    IF Falsy(parameters.to) /\ Falsy(parameters.contactName)
                    THEN no("Missing email address or contact name")
                    ELSE IF ~Falsy(parameters.to) /\ ~HasIncludes(parameters.to)
                    THEN typeError
                    ELSE IF ~Falsy(parameters.to) /\ ~Includes(parameters.to, "@")
                    THEN no("Invalid email address format")
                    ELSE IF ~Falsy(parameters.contactName) /\ ~IsString(parameters.contactName)
                    THEN no("Contact name must be a string")
                    ELSE IF Falsy(parameters.subject) THEN no("Missing email subject")
                    ELSE IF ~HasTrim(parameters.subject) THEN typeError
                    ELSE IF Blank(parameters.subject) THEN no("Missing email subject")
                    ELSE IF Falsy(parameters.body) THEN no("Missing email body")
                    ELSE IF ~HasTrim(parameters.body) THEN typeError
                    ELSE IF Blank(parameters.body) THEN no("Missing email body")
                    ELSE [yes EXCEPT !.call.parameters.body =
                                        replaceCommonPlaceholders(parameters.body)]
               [] name = "create_calendar_event" ->
                    IF Falsy(parameters.title) THEN no("Missing event title")
                    ELSE IF ~HasTrim(parameters.title) THEN typeError
                    ELSE IF Blank(parameters.title) THEN no("Missing event title")
                    \* new Date(parameters.start); new Date(parameters.end): never throws
                    ELSE yes
               [] name = "schedule_meeting_with_contact" ->
                    IF Falsy(parameters.contactEmail) /\ Falsy(parameters.contactName)
                    THEN no("Missing contact identifier")
                    ELSE IF ~Falsy(parameters.contactEmail) /\ ~HasIncludes(parameters.contactEmail)
                    THEN typeError
                    ELSE IF ~Falsy(parameters.contactEmail)
                            /\ ~Includes(parameters.contactEmail, "@")
                    THEN no("Invalid contact email format")
                    ELSE IF ~Falsy(parameters.contactName) /\ ~IsString(parameters.contactName)
                    THEN no("Contact name must be a string")
                    ELSE yes
               [] name = "add_contact_note" ->
                    IF /\ Falsy(parameters.contactId) /\ Falsy(parameters.email)
                       /\ Falsy(parameters.contactName)
                    THEN no("Missing contact identifier")
                    ELSE IF Falsy(parameters.note) THEN no("Missing note content")
                    ELSE IF ~HasTrim(parameters.note) THEN typeError
                    ELSE IF Blank(parameters.note) THEN no("Missing note content")
                    ELSE yes
               [] name = "search_contacts" ->
                    IF /\ Falsy(parameters.query) /\ Falsy(parameters.email)
                       /\ Falsy(parameters.name)
                    THEN no("Missing search criteria")
                    ELSE yes
               [] name = "create_contact" ->
                    IF Falsy(parameters.email) THEN no("Invalid or missing email address")
                    ELSE IF ~HasIncludes(parameters.email) THEN typeError
                    ELSE IF ~Includes(parameters.email, "@")
                    THEN no("Invalid or missing email address")
                    ELSE IF Includes(parameters.email, "[")
                    THEN no("Email contains placeholder brackets")
                    ELSE IF Includes(parameters.email, "example.com")
                    THEN no("Email contains example domain")
                    ELSE IF Falsy(parameters.firstName) /\ Falsy(parameters.lastName)
                    THEN no("Missing both first and last name")
                    ELSE IF \/ (~Falsy(parameters.firstName) /\ Includes(parameters.firstName, "["))
                            \/ (~Falsy(parameters.lastName) /\ Includes(parameters.lastName, "["))
                         THEN no("Names contain placeholder brackets")
                    ELSE yes
               [] OTHER -> yes

\* some call of the list makes validateSingleToolCall throw, which leaves the
\* for-of loop of validateToolCalls
validateToolCallsThrows(toolCalls) ==
    \E i \in DOMAIN toolCalls : validateSingleToolCall(toolCalls[i]).throws

RECURSIVE validateToolCalls(_)
validateToolCalls(toolCalls) ==
    IF toolCalls = <<>> THEN <<>>
    ELSE LET validation == validateSingleToolCall(Head(toolCalls))
         IN  (IF validation.valid THEN <<validation.call>> ELSE <<>>)
                \o validateToolCalls(Tail(toolCalls))

\* the JSON objects an LLM text can hold
SendEmailOk  == [NoParams EXCEPT !.to = "ok@mail.com", !.subject = "Lunch", !.body = "Hi"]
SendEmailPlaceholder ==
    [NoParams EXCEPT !.to = "user@example.com", !.subject = "Lunch", !.body = "Hi"]
SendEmailSigned ==
    [NoParams EXCEPT !.contactName = "john", !.subject = "Lunch", !.body = "Hi [Your Name]"]
CreateContactExample ==
    [NoParams EXCEPT !.email = "user@example.com", !.firstName = "john"]

JsonObject(fenced, tool, parameters, response) ==
    [fenced |-> fenced, tool |-> tool, parameters |-> parameters, response |-> response]

JsonObjects ==
    { JsonObject(TRUE,  "send_email", SendEmailOk, FALSE),
      JsonObject(FALSE, "send_email", SendEmailOk, FALSE),
      JsonObject(TRUE,  "send_email", SendEmailPlaceholder, FALSE),
      JsonObject(TRUE,  "send_email", SendEmailSigned, FALSE),
      JsonObject(FALSE, "create_contact", CreateContactExample, FALSE),
      JsonObject(TRUE,  "archive_contact", NoParams, FALSE),
      JsonObject(TRUE,  "send_email", SendEmailOk, TRUE),
      JsonObject(FALSE, Undefined, NoResult, TRUE) }

MarkSets ==
    { {}, {"I'll use"}, {"Please wait"}, {"tool call:"}, {"I've sent"},
      {"I've scheduled"}, {"NO_ACTION"} }

RECURSIVE ObjectSeqs(_)
ObjectSeqs(n) ==
    IF n = 0 THEN {<<>>}
    ELSE ObjectSeqs(n - 1) \cup
         { Append(os, o) : os \in {s \in ObjectSeqs(n - 1) : Len(s) = n - 1}, o \in JsonObjects }

LlmTexts == [marks : MarkSets, objects : ObjectSeqs(MaxObjects), error : {FALSE}]
LlmError == [marks |-> {}, objects |-> <<>>, error |-> TRUE]

ToolCall(name, parameters) == [name |-> name, parameters |-> parameters]
IsCallObject(o) == o.tool # Undefined /\ o.parameters # NoResult
CallOf(o) == ToolCall(o.tool, o.parameters)

isInstructionalResponse(response) ==
    response.marks \cap {"I'll use", "I'll retrieve", "Please wait",
                         "Here's the tool call:", "tool call:", "I'll execute"} # {}

\* stage 1: the text has "tool": and "response": somewhere; the first
\* {"tool": ..., "parameters": {...} in it is taken
stage1(response) ==
    LET os == response.objects
        hits == SelectSeq(os, IsCallObject)
    IN  IF /\ \E i \in DOMAIN os : os[i].tool # Undefined
           /\ \E i \in DOMAIN os : os[i].response
           /\ hits # <<>>
        THEN <<CallOf(hits[1])>>
        ELSE <<>>

RECURSIVE CallsOf(_)
CallsOf(os) == IF os = <<>> THEN <<>> ELSE <<CallOf(Head(os))>> \o CallsOf(Tail(os))

\* stage 2 without the skip of explanatory blocks
stage2WithoutSkip(response) ==
    CallsOf(SelectSeq(response.objects, LAMBDA o : o.fenced /\ IsCallObject(o)))

\* stage 2: every ```json block that parses and has tool and parameters
stage2(response) ==
    IF /\ isInstructionalResponse(response)
       /\ response.marks \cap {"Here's the tool call:", "I'll use", "tool call:"} # {}
    THEN <<>>
    ELSE CallsOf(SelectSeq(response.objects, LAMBDA o : o.fenced /\ IsCallObject(o)))

\* stage 3: both inline patterns are run over the whole text and each pushes
\* its matches; a match holding a "response" key is skipped
stage3(response) ==
    IF /\ isInstructionalResponse(response)
       /\ response.marks \cap {"Here's the tool call:", "I'll use"} # {}
    THEN <<>>
    ELSE LET inline == CallsOf(SelectSeq(response.objects,
                                         LAMBDA o : IsCallObject(o) /\ ~o.response))
         IN  inline \o inline

claimsToolExecution(response) == "I've sent" \in response.marks
isFakeMeetingResponse(response) == "I've scheduled" \in response.marks

\* stage 4: calls synthesized from the query and the intent
stage4(response, query) ==
    (IF query.isContactQuery
     THEN <<ToolCall("get_all_contacts", NoParams)>> ELSE <<>>)
    \o (IF query.intentType = "all_contacts_notes"
        THEN <<ToolCall("get_all_contacts_with_notes", NoParams)>> ELSE <<>>)
    \o (IF claimsToolExecution(response) /\ query.isEmailQuery
        THEN <<ToolCall("send_email",
                        [NoParams EXCEPT !.contactName = "john", !.subject = "lunch",
                                         !.body = "Please see the message below."])>>
        ELSE <<>>)
    \o (IF claimsToolExecution(response) /\ query.isAvailabilityQuery
        THEN <<ToolCall("get_available_times", NoParams)>> ELSE <<>>)
    \o (IF claimsToolExecution(response) /\ query.isMeetingSchedulingQuery
        THEN <<ToolCall("schedule_meeting_with_contact",
                        [NoParams EXCEPT !.contactName = "john smith",
                                         !.title = "Meeting with john smith"])>>
        ELSE <<>>)
    \o (IF isFakeMeetingResponse(response) /\ query.isMeetingSchedulingQuery
        THEN <<ToolCall("schedule_meeting_with_contact",
                        [NoParams EXCEPT !.contactName = "john smith",
                                         !.title = "Meeting with john smith"])>>
        ELSE <<>>)
    \o (IF query.isAllContactsNotesQuery /\ query.intentType # "all_contacts_notes"
        THEN <<ToolCall("get_all_contacts_with_notes", NoParams)>> ELSE <<>>)

\* parseEnhancedToolCalls with stage 4 run whatever stages 1-3 have found
parseWithUnguardedStage4(response, query) ==
    LET s12  == stage1(response) \o stage2(response)
        s123 == IF s12 = <<>> THEN stage3(response) ELSE s12
    IN  IF query # NoResult THEN s123 \o stage4(response, query) ELSE s123

\* parseEnhancedToolCalls(response, intent, query); query is NoResult when the
\* caller passes the response only
parseEnhancedToolCalls(response, query) ==
    LET s12  == stage1(response) \o stage2(response)
        s123 == IF s12 = <<>> THEN stage3(response) ELSE s12
    IN  IF s123 = <<>> /\ query # NoResult THEN stage4(response, query) ELSE s123

\* what the POST handler, analyzeQueryIntent and stage 4 test on the query text
Query(text, route, intentType, isContactQuery, isAllContactsNotesQuery, isEmailQuery, isAvailabilityQuery, isMeetingSchedulingQuery) ==
    [text |-> text, route |-> route, intentType |-> intentType,
     isContactQuery |-> isContactQuery,
     isAllContactsNotesQuery |-> isAllContactsNotesQuery,
     isEmailQuery |-> isEmailQuery,
     isAvailabilityQuery |-> isAvailabilityQuery,
     isMeetingSchedulingQuery |-> isMeetingSchedulingQuery]

Queries ==
    { Query("send an email to john about lunch", "rag", "action",
            FALSE, FALSE, TRUE, FALSE, FALSE),
      Query("email john about lunch", "rag", "action",
            FALSE, FALSE, FALSE, FALSE, FALSE),
      Query("schedule a meeting with john smith on friday", "meeting", "meeting",
            FALSE, FALSE, FALSE, TRUE, TRUE),
      Query("show my contacts", "contacts", "search",
            TRUE, FALSE, FALSE, FALSE, FALSE),
      Query("give me the contact list", "rag", "search",
            TRUE, FALSE, FALSE, FALSE, FALSE),
      Query("get all notes", "rag", "all_contacts_notes",
            FALSE, TRUE, FALSE, FALSE, FALSE),
      Query("when someone emails me, create a contact", "rag", "instruction",
            FALSE, FALSE, FALSE, FALSE, FALSE),
      Query("if someone emails me, please always schedule a meeting with them at noon",
            "meeting", "instruction", FALSE, FALSE, FALSE, TRUE, TRUE) }

\* the tools executeToolCall has a case for
KnownTools ==
    {"send_email", "create_calendar_event", "schedule_meeting_with_contact",
     "search_contacts", "create_contact", "add_contact_note", "get_available_times",
     "get_all_contacts", "get_contact_notes", "get_all_contacts_with_notes"}

RECURSIVE Range(_)
Range(seq) == IF seq = <<>> THEN {} ELSE {Head(seq)} \cup Range(Tail(seq))

\* executionLog.push that puts the entry in front of the log
logBefore(log, pos, toolCall, success, error) ==
    <<[tool |-> toolCall.name, success |-> success, error |-> error, pos |-> pos]>> \o log

\* executionLog.push that is only done for a successful call
logSuccessOnly(log, pos, toolCall, success, error) ==
    IF success
    THEN Append(log, [tool |-> toolCall.name, success |-> success, error |-> error, pos |-> pos])
    ELSE log

\* executionLog.push({ tool, success, description, data | error }); pos is the
\* position the call had in the input list
logAfter(log, pos, toolCall, success, error) ==
    Append(log, [tool |-> toolCall.name, success |-> success, error |-> error, pos |-> pos])

InitPipeline ==
    /\ mInstruction = NoResult /\ mContext = NoResult /\ mResult = NoResult
    /\ InitProactiveIdle
    /\ InitTasksIdle
    /\ InitPipelineIdle
    /\ InitLlmIdle
    /\ InitParseIdle
    /\ InitValidateIdle
    /\ InitRestIdle

\* POST /api/query with a query; llm is what the LLM will answer to its prompt
PostQuery(query, llm) ==
    /\ qPc = "idle"
    /\ qReq' = [path |-> "query", query |-> query, llm |-> llm, hasInstructions |-> FALSE]
    /\ qPc' = "received"
    /\ UNCHANGED <<qResp, varsX, xHanded, accepted, finalResponse, instructions, varsNotQ>>

\* the two contact branches call executeGetAllContacts(WithNotes) themselves
DirectContactQuery(ok) ==
    /\ qPc = "received" /\ qReq.path = "query"
    /\ qReq.query.route \in {"contacts", "contacts_notes"}
    /\ xLog' = <<[tool |-> "get_all_contacts", success |-> ok,
                  error |-> IF ok THEN Undefined ELSE "failure", pos |-> 1]>>
    /\ finalResponse' = [llmText |-> FALSE,
                         body |-> IF ok THEN "contacts" ELSE "could not retrieve",
                         successes |-> 0, failures |-> 0, followUp |-> FALSE]
    /\ qPc' = "responded"
    /\ UNCHANGED <<qReq, qResp, xIdx, xRunning, successCount, failureCount, xTrace,
                   xHanded, accepted, instructions, varsNotQ>>

\* generateRAGResponse without its try/catch: the text is parsed whatever the
\* outcome of llmClient.generateResponse
ragResponseUncaught(llm, query) ==
    [content |-> "llm",
     toolCalls |-> validateToolCalls(parseEnhancedToolCalls(llm, query))]

\* what generateRAGResponse returns: the catch turns a throw of
\* llmClient.generateResponse into the apology with no tool calls
ragResponse(llm, query) ==
    IF llm.error \/ validateToolCallsThrows(parseEnhancedToolCalls(llm, query))
    THEN [content |-> "apology", toolCalls |-> <<>>]
    ELSE [content |-> "llm",
          toolCalls |-> validateToolCalls(parseEnhancedToolCalls(llm, query))]

\* generateRAGResponse, and the storing of a conditional instruction that
\* follows it in the last branch of the handler
GenerateRAGResponse ==
    /\ qPc = "received" /\ qReq.path = "query"
    /\ qReq.query.route \in {"rag", "meeting"}
    /\ LET rag == ragResponse(qReq.llm, qReq.query)
           validated == rag.toolCalls
           conditional == /\ ~qReq.llm.error
                          /\ qReq.query.route = "rag"
                          /\ qReq.query.intentType = "instruction"
       IN  /\ accepted' = accepted \cup Range(validated)
           /\ qResp' = [content |-> rag.content,
                        toolCalls |-> IF conditional THEN <<>> ELSE validated]
           /\ instructions' =
                 IF conditional
                 THEN Append(instructions, [userId |-> "u1", text |-> <<qReq.query.text>>,
                                            isActive |-> TRUE])
                 ELSE instructions
    /\ qPc' = "exec"
    /\ UNCHANGED <<qReq, varsX, xHanded, finalResponse, varsNotQ>>

\* for (const toolCall of toolCalls): await executeToolCall(userId, toolCall, ...)
ToolCallStart ==
    /\ qPc = "exec" /\ xRunning = 0 /\ xIdx <= Len(qResp.toolCalls)
    /\ xRunning' = xIdx
    /\ xTrace' = Append(xTrace, [ev |-> "start", pos |-> xIdx])
    /\ xHanded' = Append(xHanded, [path |-> "query", call |-> qResp.toolCalls[xIdx]])
    /\ UNCHANGED <<qPc, qReq, qResp, xIdx, xLog, successCount, failureCount,
                   accepted, finalResponse, instructions, varsNotQ>>

\* the executor returns { success: true }
ToolCallSucceeds ==
    /\ qPc = "exec" /\ xRunning # 0
    /\ qResp.toolCalls[xRunning].name \in KnownTools
    /\ xLog' = logAfter(xLog, xRunning, qResp.toolCalls[xRunning], TRUE, Undefined)
    /\ successCount' = successCount + 1
    /\ xTrace' = Append(xTrace, [ev |-> "finish", pos |-> xRunning])
    /\ xRunning' = 0 /\ xIdx' = xIdx + 1
    /\ UNCHANGED <<qPc, qReq, qResp, failureCount, xHanded, accepted, finalResponse,
                   instructions, varsNotQ>>

\* the executor returns { success: false }, or the tool is unknown
ToolCallFails ==
    /\ qPc = "exec" /\ xRunning # 0
    /\ xLog' = logAfter(xLog, xRunning, qResp.toolCalls[xRunning], FALSE,
                        IF qResp.toolCalls[xRunning].name \in KnownTools
                        THEN "failure" ELSE "Tool not implemented")
    /\ failureCount' = failureCount + 1
    /\ xTrace' = Append(xTrace, [ev |-> "finish", pos |-> xRunning])
    /\ xRunning' = 0 /\ xIdx' = xIdx + 1
    /\ UNCHANGED <<qPc, qReq, qResp, successCount, xHanded, accepted, finalResponse,
                   instructions, varsNotQ>>

\* the executor throws: the catch of executeToolCall turns it into a failure
ToolCallThrows ==
    /\ qPc = "exec" /\ xRunning # 0
    /\ qResp.toolCalls[xRunning].name \in KnownTools
    /\ xLog' = logAfter(xLog, xRunning, qResp.toolCalls[xRunning], FALSE, "exception")
    /\ failureCount' = failureCount + 1
    /\ xTrace' = Append(xTrace, [ev |-> "finish", pos |-> xRunning])
    /\ xRunning' = 0 /\ xIdx' = xIdx + 1
    /\ UNCHANGED <<qPc, qReq, qResp, successCount, xHanded, accepted, finalResponse,
                   instructions, varsNotQ>>

Succeeded(log, tools) == \E i \in DOMAIN log : log[i].tool \in tools /\ log[i].success

hasDetailedResponse(response) ==
    response.marks \cap {"email sent", "meeting scheduled", "event created"} # {}

\* the text the handler builds from response.content and the execution log
composeResponse(req, resp, log, successes, failures, pending) ==
    LET content == [llmText |-> resp.content = "llm", body |-> resp.content,
                    successes |-> 0, failures |-> 0, followUp |-> FALSE]
        withList == [content EXCEPT !.successes = successes]
        availability == [content EXCEPT !.llmText = FALSE, !.body = "availability"]
        afterSuccess ==
            IF successes = 0 THEN content
            ELSE IF req.query.route = "meeting"
            THEN IF Succeeded(log, {"get_available_times"}) THEN availability
                 ELSE IF Succeeded(log, {"schedule_meeting_with_contact"})
                 THEN [content EXCEPT !.llmText = FALSE, !.body = "meeting confirmation"]
                 ELSE withList
            ELSE IF Succeeded(log, {"get_all_contacts", "get_all_contacts_with_notes"})
                 THEN [content EXCEPT !.llmText = FALSE, !.body = "contacts"]
                 ELSE LET base == IF Succeeded(log, {"get_available_times"})
                                  THEN availability ELSE content
                      IN  IF base.llmText /\ hasDetailedResponse(req.llm) THEN base
                          ELSE [base EXCEPT !.successes = successes]
        afterFailure == [afterSuccess EXCEPT !.failures = failures]
    IN  IF req.query.route = "meeting" THEN afterFailure
        ELSE [afterFailure EXCEPT !.followUp = pending]

\* the loop is over: compose finalResponse and return it
Respond ==
    /\ qPc = "exec" /\ xRunning = 0 /\ xIdx > Len(qResp.toolCalls)
    /\ finalResponse' = composeResponse(qReq, qResp, xLog, successCount, failureCount,
                            \E t \in DOMAIN tasks : tasks[t].status = "pending")
    /\ qPc' = "responded"
    /\ UNCHANGED <<qReq, qResp, varsX, xHanded, accepted, instructions, varsNotQ>>

\* handleGmailMessage is called for a new message
GmailWebhook(llm, hasInstructions) ==
    /\ qPc = "idle"
    /\ qReq' = [path |-> "webhook", query |-> NoResult, llm |-> llm,
                hasInstructions |-> hasInstructions]
    /\ qPc' = "received"
    /\ UNCHANGED <<qResp, varsX, xHanded, accepted, finalResponse, instructions, varsNotQ>>

\* analyzeProactiveAction: the first call parsed from the LLM text, or null
AnalyzeProactiveAction ==
    /\ qPc = "received" /\ qReq.path = "webhook"
    /\ LET toolCalls == IF \/ ~qReq.hasInstructions
                           \/ qReq.llm.error
                           \/ "NO_ACTION" \in qReq.llm.marks
                        THEN <<>>
                        ELSE parseEnhancedToolCalls(qReq.llm, NoResult)
       IN  qResp' = [content |-> "llm",
                     toolCalls |-> IF toolCalls = <<>> THEN <<>> ELSE <<toolCalls[1]>>]
    /\ qPc' = "analyzed"
    /\ UNCHANGED <<qReq, varsX, xHanded, accepted, finalResponse, instructions, varsNotQ>>

\* if (proactiveAction) await executeProactiveAction(userId, proactiveAction, ...)
ExecuteProactiveAction ==
    /\ qPc = "analyzed" /\ qResp.toolCalls # <<>>
    /\ xHanded' = Append(xHanded, [path |-> "webhook", call |-> qResp.toolCalls[1]])
    /\ qPc' = "handled"
    /\ UNCHANGED <<qReq, qResp, varsX, accepted, finalResponse, instructions, varsNotQ>>

NoProactiveAction ==
    /\ qPc = "analyzed" /\ qResp.toolCalls = <<>>
    /\ qPc' = "handled"
    /\ UNCHANGED <<qReq, qResp, varsX, xHanded, accepted, finalResponse, instructions,
                   varsNotQ>>

NextPipeline ==
    \/ qPc = "idle" /\ \E q \in Queries, llm \in LlmTexts \cup {LlmError} : PostQuery(q, llm)
    \/ \E ok \in BOOLEAN : DirectContactQuery(ok)
    \/ GenerateRAGResponse
    \/ ToolCallStart
    \/ ToolCallSucceeds
    \/ ToolCallFails
    \/ ToolCallThrows
    \/ Respond
    \/ qPc = "idle" /\ \E llm \in LlmTexts \cup {LlmError}, b \in BOOLEAN : GmailWebhook(llm, b)
    \/ AnalyzeProactiveAction
    \/ ExecuteProactiveAction
    \/ NoProactiveAction

SpecPipeline == InitPipeline /\ [][NextPipeline]_vars

\* C1 (as claimed): every tool call handed to an executor, on the query path and
\* on the webhook path, was accepted by validateSingleToolCall before.
C1_HandedCallsWereAccepted ==
    \A i \in DOMAIN xHanded : xHanded[i].call \in accepted

\* C2 (as claimed): when the text of the model claims a side effect and no tool
\* call was parsed, synthesized or kept by validation, the response returned to
\* the user does not carry that text.
C2_NoUnbackedClaimDelivered ==
    (/\ qPc = "responded"
     /\ qReq.query.route \in {"rag", "meeting"}
     /\ qReq.llm.marks \cap {"I've sent", "I've scheduled"} # {}
     /\ qResp.toolCalls = <<>>)
        => ~finalResponse.llmText

\* C3: executeToolCallsSequentially runs the calls one at a time in the order of
\* the list (call i+1 starts after call i has finished) and the execution log
\* lists them in that order.
C3_OneAtATimeInOrder ==
    qReq # NoResult /\ qReq.path = "query" /\ qPc = "exec" =>
        /\ \A k \in DOMAIN xTrace :
              xTrace[k] = [ev |-> IF k % 2 = 1 THEN "start" ELSE "finish",
                           pos |-> (k + 1) \div 2]
        /\ \A i \in DOMAIN xLog :
              xLog[i].pos = i /\ xLog[i].tool = qResp.toolCalls[i].name

C3_Witness ==
    /\ qPc = "exec" /\ xIdx > Len(qResp.toolCalls)
    /\ Len(xLog) >= 2
    /\ xLog[1].tool # xLog[2].tool

\* C4: for a list of n tool calls executeToolCallsSequentially attempts every
\* call, also after a call has failed or thrown: when the loop is over the log
\* has n entries and successCount + failureCount = n.
C4_EveryCallLogged ==
    qReq # NoResult /\ qReq.path = "query" /\ qPc = "exec" =>
        /\ successCount + failureCount = xIdx - 1
        /\ Len(xLog) = xIdx - 1
        /\ successCount = Cardinality({i \in DOMAIN xLog : xLog[i].success})
        /\ (xIdx > Len(qResp.toolCalls) =>
                /\ Len(xTrace) = 2 * Len(qResp.toolCalls)
                /\ Len(xLog) = Len(qResp.toolCalls))

C4_Witness ==
    /\ qPc = "exec" /\ xIdx > Len(qResp.toolCalls)
    /\ Len(xLog) >= 2
    /\ xLog[1].error = "exception"
    /\ xLog[2].success

(***************************************************************************)
(* Claims about the proactive instruction matcher and its handler.         *)
(***************************************************************************)

\* the row of the table is matched by the event being handled with a confidence
\* above the threshold
WouldMatch(id) ==
    /\ hCtx # NoResult
    /\ instructions[id].userId = hCtx.userId
    /\ analyzeInstructionMatch(hCtx, [id |-> id, text |-> instructions[id].text,
                                      userId |-> instructions[id].userId,
                                      isActive |-> instructions[id].isActive]).confidence
         > Threshold

\* C7 (as claimed): an instruction whose isActive is false never has a proactive
\* action executed for it, also when it is deactivated while the event is being
\* handled: at every executeProactiveAction call the instruction is active in
\* the table.
C7_ActiveWhenExecuted ==
    \A i \in DOMAIN hExecuted : hExecuted[i].activeAtExec

\* C7 (amended): every instruction that is matched against the event, and every
\* instruction an action is executed for, belonged to the event's user and had
\* isActive = true in the row findMany read at the start of the handling.
C7_ActiveWhenRead ==
    /\ \A i \in DOMAIN hMatches :
          hMatches[i].instruction.isActive /\ hMatches[i].instruction.userId = hCtx.userId
    /\ \A i \in DOMAIN hExecuted :
          hExecuted[i].instruction.isActive /\ hExecuted[i].instruction.userId = hCtx.userId

\* an instruction that matches the event but was inactive throughout is left out,
\* while another instruction's action ran
C7_Witness ==
    /\ hPc = "done"
    /\ Len(hExecuted) > 0
    /\ \E id \in DOMAIN instructions :
          /\ ~instructions[id].isActive
          /\ WouldMatch(id)
          /\ \A i \in DOMAIN hExecuted : hExecuted[i].instruction.id # id

\* C8: executeProactiveAction is called only for matches whose confidence is
\* strictly greater than 0.7.
C8_ExecutedAboveThreshold ==
    \A i \in DOMAIN hExecuted : hExecuted[i].confidence > Threshold

\* an active instruction of the user that does not match the event (confidence 0)
\* was read and skipped while another one was executed
C8_Witness ==
    /\ Len(hExecuted) > 0
    /\ \E id \in DOMAIN instructions :
          /\ instructions[id].isActive
          /\ instructions[id].userId = hCtx.userId
          /\ ~WouldMatch(id)
          /\ id < hExecuted[1].instruction.id
          /\ \A i \in DOMAIN hExecuted : hExecuted[i].instruction.id # id

\* C9 (as claimed): an exception raised by the action of one match does not keep
\* the actions of the remaining matches from being executed: when the handling
\* is over, executeProactiveAction has been called for every qualifying match.
C9_AllMatchesExecuted ==
    hPc = "done" => Len(hExecuted) = Len(hMatches)

\* C10: analyzeInstructionMatch returns confidence 0.9 if the text matches some
\* pattern whose required (event, service) pair is the event's, and 0 otherwise;
\* when that pattern is emailNotInHubspot, extractedParams.email is the event's
\* senderEmail.
C10_ConfidenceAndEmail ==
    mResult # NoResult =>
        LET hits == { k \in DOMAIN PatternNames :
                        /\ PatternTest(PatternNames[k], mInstruction.text)
                        /\ mContext.event = requiredEvent(PatternNames[k])
                        /\ mContext.service = requiredService(PatternNames[k]) }
        IN  /\ mResult.confidence = (IF hits # {} THEN 9 ELSE 0)
            /\ (1 \in hits => mResult.extractedParams.email = mContext.data.senderEmail)

C10_Witness ==
    /\ mResult # NoResult
    /\ mResult.confidence = 9
    /\ PatternTest("emailNotInHubspot", mInstruction.text)
    /\ mResult.extractedParams.email = "x@y.com"

\* the library patterns the text matches, and those of them whose required
\* (event, service) pair is the event's
TextualMatches ==
    { k \in DOMAIN PatternNames : PatternTest(PatternNames[k], mInstruction.text) }

ApplicableMatches ==
    { k \in TextualMatches : /\ mContext.event = requiredEvent(PatternNames[k])
                             /\ mContext.service = requiredService(PatternNames[k]) }

MaxOf(S) == CHOOSE k \in S : \A j \in S : j <= k

\* what the loop body sets for pattern k taken alone
ValuesOfPattern(k) ==
    IF k \in ApplicableMatches
    THEN [confidence |-> 9,
          extractedParams |->
            CASE k = 1 -> extractEmailToContactParams(mInstruction.text, mContext.data)
              [] k = 2 -> extractContactCreatedParams(mInstruction.text, mContext.data)
              [] k = 3 -> extractCalendarEventParams(mInstruction.text, mContext.data)
              [] OTHER -> EmptyParams]
    ELSE [confidence |-> 0, extractedParams |-> EmptyParams]

\* C11 (as claimed): when the text matches more than one library pattern, the
\* confidence and extractedParams returned are those of the last pattern, in
\* library order, that the text matches.
C11_LastTextualMatchWins ==
    (mResult # NoResult /\ Cardinality(TextualMatches) > 1) =>
        /\ mResult.confidence = ValuesOfPattern(MaxOf(TextualMatches)).confidence
        /\ mResult.extractedParams = ValuesOfPattern(MaxOf(TextualMatches)).extractedParams

\* C11 (amended): the confidence and extractedParams returned are those of the
\* last pattern, in library order, that the text matches and whose required
\* (event, service) pair is the event's; a pattern the text matches but whose
\* pair is not the event's changes neither value; without such a pattern the
\* result is confidence 0 and empty extractedParams.
C11_LastApplicableMatchWins ==
    mResult # NoResult =>
        IF ApplicableMatches = {}
        THEN mResult.confidence = 0 /\ mResult.extractedParams = EmptyParams
        ELSE /\ mResult.confidence = ValuesOfPattern(MaxOf(ApplicableMatches)).confidence
             /\ mResult.extractedParams =
                    ValuesOfPattern(MaxOf(ApplicableMatches)).extractedParams

\* the text matches two patterns, the later one requires another event, and the
\* result carries the values of the earlier one
C11_Witness ==
    /\ mResult # NoResult
    /\ Cardinality(TextualMatches) > 1
    /\ MaxOf(TextualMatches) \notin ApplicableMatches
    /\ mResult.confidence = 9
    /\ mResult.extractedParams.action = "notify_attendees"

(***************************************************************************)
(* LLMClient: the constructor keeps the providers that have an API key, in *)
(* the order groq, openrouter; generateResponse walks them in that order.  *)
(* Temperatures are in tenths.                                             *)
(***************************************************************************)

PotentialProviders == <<"groq", "openrouter">>

\* potentialProviders.filter(provider => provider.apiKey && provider.apiKey.length > 0)
configuredProviders(keys) ==
    SelectSeq(PotentialProviders, LAMBDA name : name \in keys)

Temperatures == {3, 7, 9}
Contents == {"answer A", "answer B"}

\* Math.max(0.1, Math.min(1.0, temperature))
clampTemperature(t) ==
    IF t < 1 THEN 1 ELSE IF t > 10 THEN 10 ELSE t

\* errors.push that keeps only the error of the provider that failed last
pushLastErrorOnly(errors, provider, message) ==
    <<[provider |-> provider, message |-> message]>>

\* errors.push(`${provider.name} failed: ${message}`)
pushError(errors, provider, message) ==
    Append(errors, [provider |-> provider, message |-> message])

InitLlm ==
    /\ mInstruction = NoResult /\ mContext = NoResult /\ mResult = NoResult
    /\ InitProactiveIdle
    /\ InitTasksIdle
    /\ InitPipelineIdle
    /\ lProviders \in {configuredProviders(keys) : keys \in SUBSET {"groq", "openrouter"}}
    /\ lPc = "idle" /\ lTemperature = 0 /\ lIdx = 1
    /\ lErrors = <<>> /\ lCalls = <<>> /\ lResult = NoResult /\ lRequests = 0
    /\ InitParseIdle
    /\ InitValidateIdle
    /\ InitRestIdle

\* llmClient.generateResponse(messages, temperature) is called
GenerateResponse(temperature) ==
    /\ lPc \in {"idle", "returned", "threw"}
    /\ lRequests < MaxRequests
    /\ lRequests' = lRequests + 1
    /\ lTemperature' = temperature
    /\ lIdx' = 1 /\ lErrors' = <<>> /\ lCalls' = <<>> /\ lResult' = NoResult
    /\ lPc' = "loop"
    /\ UNCHANGED <<lProviders, varsNotL>>

\* this.providers.length === 0
ThrowNoProviders ==
    /\ lPc = "loop" /\ Len(lProviders) = 0
    /\ lResult' = [error |-> "No LLM providers available", errors |-> <<>>]
    /\ lPc' = "threw"
    /\ UNCHANGED <<lProviders, lTemperature, lIdx, lErrors, lCalls, lRequests, varsNotL>>

FetchCall(outcome) ==
    [provider |-> lProviders[lIdx], temperature |-> clampTemperature(lTemperature),
     outcome |-> outcome]

\* fetch resolves, response.ok, and the body has choices[0].message.content
ProviderSucceeds(content) ==
    /\ lPc = "loop" /\ Len(lProviders) > 0 /\ lIdx <= Len(lProviders)
    /\ lCalls' = Append(lCalls, FetchCall("ok"))
    /\ lResult' = [content |-> content, provider |-> lProviders[lIdx]]
    /\ lPc' = "returned"
    /\ UNCHANGED <<lProviders, lTemperature, lIdx, lErrors, lRequests, varsNotL>>

\* fetch rejects, !response.ok, or the body has no content: caught, next provider
ProviderFails(message) ==
    /\ lPc = "loop" /\ Len(lProviders) > 0 /\ lIdx <= Len(lProviders)
    /\ lCalls' = Append(lCalls, FetchCall(message))
    /\ lErrors' = pushError(lErrors, lProviders[lIdx], message)
    /\ lIdx' = lIdx + 1
    /\ UNCHANGED <<lProviders, lPc, lTemperature, lResult, lRequests, varsNotL>>

\* throw new Error(`All LLM providers failed:\n${errors.join('\n')}`)
ThrowAllFailed ==
    /\ lPc = "loop" /\ Len(lProviders) > 0 /\ lIdx > Len(lProviders)
    /\ lResult' = [error |-> "All LLM providers failed", errors |-> lErrors]
    /\ lPc' = "threw"
    /\ UNCHANGED <<lProviders, lTemperature, lIdx, lErrors, lCalls, lRequests, varsNotL>>

FailureMessages == {"network error", "API error", "Invalid response format"}

NextLlm ==
    \/ \E t \in Temperatures : GenerateResponse(t)
    \/ ThrowNoProviders
    \/ \E c \in Contents : ProviderSucceeds(c)
    \/ \E msg \in FailureMessages : ProviderFails(msg)
    \/ ThrowAllFailed

SpecLlm == InitLlm /\ [][NextLlm]_vars

\* C12: generateResponse calls the configured providers in their fixed order,
\* each at most once per request; it returns the content of the first provider
\* that succeeds and calls no later one; when every provider has failed it
\* throws one error that holds one error string per configured provider.
C12_ProvidersInOrderOnce ==
    /\ Len(lCalls) <= Len(lProviders)
    /\ \A i \in DOMAIN lCalls :
          /\ lCalls[i].provider = lProviders[i]
          /\ (i < Len(lCalls) => lCalls[i].outcome # "ok")
    /\ (lPc = "returned" =>
          /\ lCalls # <<>>
          /\ lCalls[Len(lCalls)].outcome = "ok"
          /\ lResult.provider = lProviders[Len(lCalls)])
    /\ (lPc = "threw" =>
          /\ Len(lCalls) = Len(lProviders)
          /\ \A i \in DOMAIN lCalls : lCalls[i].outcome # "ok"
          /\ Len(lResult.errors) = Len(lProviders)
          /\ \A i \in DOMAIN lProviders :
                /\ lResult.errors[i].provider = lProviders[i]
                /\ lResult.errors[i].message = lCalls[i].outcome)

\* both providers are configured and both have failed
C12_Witness ==
    /\ lPc = "threw"
    /\ Len(lProviders) = 2
    /\ Len(lResult.errors) = 2
    /\ lResult.errors[1].message # lResult.errors[2].message

\* C13: when the LLM call of generateRAGResponse fails on every provider (or no
\* provider is configured), generateRAGResponse does not throw: the query
\* handler receives the apology text with an empty toolCalls list, and no tool
\* is executed for that request.
C13_LlmFailureGivesApology ==
    (qPc \in {"exec", "responded"} /\ qReq.path = "query" /\ qReq.llm.error
        /\ qReq.query.route \in {"rag", "meeting"}) =>
        /\ qResp.content = "apology"
        /\ qResp.toolCalls = <<>>
        /\ xHanded = <<>>
        /\ xLog = <<>>
        /\ xTrace = <<>>

\* the handler has answered a request whose LLM call failed
C13_Witness ==
    /\ qPc = "responded" /\ qReq.path = "query" /\ qReq.llm.error
    /\ qReq.query.route = "rag"
    /\ finalResponse.body = "apology"

(***************************************************************************)
(* parseEnhancedToolCalls as a pure function: every text of ParserTexts,   *)
(* with and without the intent and query arguments, is parsed, and parsed  *)
(* a second time.                                                          *)
(***************************************************************************)

\* a mark is a phrase the text includes; "Here's the tool call:" includes "tool call:"
ParserMarkSets ==
    { {}, {"I'll use"}, {"I'll retrieve"}, {"Please wait"},
      {"Here's the tool call:", "tool call:"}, {"tool call:"}, {"I'll execute"},
      {"I've sent"}, {"I've scheduled"}, {"I've sent", "I've scheduled"},
      {"Sure, sending it now."} }

ParserObjects ==
    JsonObjects \cup { JsonObject(FALSE, "send_email", SendEmailOk, TRUE) }

RECURSIVE ParserObjectSeqs(_)
ParserObjectSeqs(n) ==
    IF n = 0 THEN {<<>>}
    ELSE ParserObjectSeqs(n - 1) \cup
         { Append(os, o) : os \in {s \in ParserObjectSeqs(n - 1) : Len(s) = n - 1},
                           o \in ParserObjects }

ParserTexts ==
    [marks : ParserMarkSets, objects : ParserObjectSeqs(MaxObjects), error : {FALSE}]

InitParse ==
    /\ mInstruction = NoResult /\ mContext = NoResult /\ mResult = NoResult
    /\ InitProactiveIdle
    /\ InitTasksIdle
    /\ InitPipelineIdle
    /\ InitLlmIdle
    /\ InitValidateIdle
    /\ InitRestIdle
    /\ pPc = "input"
    /\ pResponse \in ParserTexts
    /\ pQuery \in Queries \cup {NoResult}
    /\ pCalls = <<>> /\ pAgain = <<>>

\* const toolCalls = parseEnhancedToolCalls(response, intent, query)
ParseToolCalls ==
    /\ pPc = "input"
    /\ pCalls' = parseEnhancedToolCalls(pResponse, pQuery)
    /\ pPc' = "parsed"
    /\ UNCHANGED <<pResponse, pQuery, pAgain, varsNotR>>

\* the same call once more on the same arguments
ParseAgain ==
    /\ pPc = "parsed"
    /\ pAgain' = parseEnhancedToolCalls(pResponse, pQuery)
    /\ pPc' = "reparsed"
    /\ UNCHANGED <<pResponse, pQuery, pCalls, varsNotR>>

NextParse ==
    \/ ParseToolCalls
    \/ ParseAgain

SpecParse == InitParse /\ [][NextParse]_vars

Parsed == pPc \in {"parsed", "reparsed"}

\* the text holds one JSON object, which has the keys tool, parameters and response
HoldsOneEchoedObject ==
    /\ Len(pResponse.objects) = 1
    /\ IsCallObject(pResponse.objects[1])
    /\ pResponse.objects[1].response

\* C14 (as claimed): for a response that holds a single object with the keys
\* tool, parameters and response, inline or in a fenced block,
\* parseEnhancedToolCalls returns zero or one ToolCall, never two or more.
C14_AtMostOneCall ==
    (Parsed /\ HoldsOneEchoedObject) => Len(pCalls) <= 1

\* the text holds exactly one JSON object: a fenced block with tool and parameters
HoldsOneFencedCall ==
    /\ Len(pResponse.objects) = 1
    /\ pResponse.objects[1].fenced
    /\ IsCallObject(pResponse.objects[1])
    /\ ~pResponse.objects[1].response

\* C15 (as claimed): for a response with exactly one well-formed fenced json
\* block holding a tool call, parseEnhancedToolCalls returns exactly one
\* ToolCall, with the name and the parameters of the block, whatever prose
\* surrounds the block, and a second parse returns the same list.
C15_OneCallWhateverProse ==
    (pPc = "reparsed" /\ HoldsOneFencedCall) =>
        /\ pCalls = <<CallOf(pResponse.objects[1])>>
        /\ pAgain = pCalls

\* without an instructional phrase the block is returned once, and in every
\* case the second parse returns what the first returned
C15_OneCallInPlainProse ==
    /\ (pPc = "reparsed" => pAgain = pCalls)
    /\ (Parsed /\ HoldsOneFencedCall /\ ~isInstructionalResponse(pResponse)) =>
            pCalls = <<CallOf(pResponse.objects[1])>>

\* the block follows the prose "tool call:" and comes back twice
C15_ReturnedTwice ==
    /\ Parsed /\ HoldsOneFencedCall
    /\ pResponse.marks = {"tool call:"}
    /\ pCalls = <<CallOf(pResponse.objects[1]), CallOf(pResponse.objects[1])>>

\* the calls written in the text, whichever stage finds them
TextCalls == { CallOf(pResponse.objects[i]) :
                 i \in {j \in DOMAIN pResponse.objects : IsCallObject(pResponse.objects[j])} }

\* C16: the list returned by parseEnhancedToolCalls holds a synthesized call (one
\* that is not written in the text) only when stages 1-3 produced no call and
\* both intent and query were supplied; it then holds synthesized calls only.
C16_SynthesizedOnlyAsFallback ==
    (Parsed /\ \E i \in DOMAIN pCalls : pCalls[i] \notin TextCalls) =>
        /\ pQuery # NoResult
        /\ stage1(pResponse) = <<>>
        /\ stage2(pResponse) = <<>>
        /\ stage3(pResponse) = <<>>
        /\ \A i \in DOMAIN pCalls : pCalls[i] \notin TextCalls

\* a text whose calls stages 2 and 3 skipped, answered with a synthesized call
C16_Witness ==
    /\ Parsed /\ pQuery # NoResult
    /\ TextCalls # {}
    /\ pCalls # <<>>
    /\ pCalls[1] \notin TextCalls

SendEmailCalls ==
    { ToolCall("send_email",
               [NoParams EXCEPT !.to = to, !.contactName = contactName,
                                !.subject = subject, !.body = body]) :
        to \in {Undefined, "", "ok@mail.com", "john", "user@example.com", "USER@EXAMPLE.COM",
                "[Email Address]", "placeholder@mail.com", NumberValue, ArrayValue},
        contactName \in {Undefined, "john", NumberValue},
        subject \in {Undefined, "Lunch", "   ", NumberValue},
        body \in {Undefined, "Hi", "   ", "Hi [Your Name]", NumberValue} }

CalendarEventCalls ==
    { ToolCall("create_calendar_event",
               [NoParams EXCEPT !.title = title, !.start = start, !.end = end]) :
        title \in {Undefined, "", "   ", "Sync", NumberValue},
        start \in {Undefined, "2025-01-01T10:00:00Z", "not a date"},
        end \in {Undefined, "2025-01-01T11:00:00Z", "not a date"} }

CreateContactCalls ==
    { ToolCall("create_contact", [NoParams EXCEPT !.email = email, !.firstName = "john"]) :
        email \in {Undefined, "ok@mail.com", "user@example.com", NumberValue} }

ValidatorCalls == SendEmailCalls \cup CalendarEventCalls \cup CreateContactCalls

\* the calls that lists of more than one element are made of
ListCalls ==
    { ToolCall("send_email", SendEmailOk),
      ToolCall("send_email", SendEmailSigned),
      ToolCall("send_email", SendEmailPlaceholder),
      ToolCall("send_email", [SendEmailOk EXCEPT !.to = NumberValue]),
      ToolCall("create_calendar_event", [NoParams EXCEPT !.title = "Sync"]),
      ToolCall("get_all_contacts", NoParams) }

RECURSIVE CallLists(_)
CallLists(n) ==
    IF n = 0 THEN {<<>>}
    ELSE CallLists(n - 1) \cup
         { Append(cs, c) : cs \in {s \in CallLists(n - 1) : Len(s) = n - 1}, c \in ListCalls }

InitValidate ==
    /\ mInstruction = NoResult /\ mContext = NoResult /\ mResult = NoResult
    /\ InitProactiveIdle
    /\ InitTasksIdle
    /\ InitPipelineIdle
    /\ InitLlmIdle
    /\ InitParseIdle
    /\ InitRestIdle
    /\ vPc = "loop"
    /\ vInput \in CallLists(MaxCalls) \cup { <<c>> : c \in ValidatorCalls }
    /\ vIdx = 1 /\ vOutput = <<>> /\ vWarned = <<>>

\* validation.valid: validatedCalls.push(call)
ValidateAccepts ==
    /\ vPc = "loop" /\ vIdx <= Len(vInput)
    /\ LET validation == validateSingleToolCall(vInput[vIdx])
       IN  /\ ~validation.throws /\ validation.valid
           /\ vOutput' = Append(vOutput, validation.call)
    /\ vIdx' = vIdx + 1
    /\ UNCHANGED <<vPc, vInput, vWarned, varsNotV>>

\* !validation.valid: console.warn(`Invalid tool call: ${validation.reason}`, call)
ValidateRejects ==
    /\ vPc = "loop" /\ vIdx <= Len(vInput)
    /\ LET validation == validateSingleToolCall(vInput[vIdx])
       IN  /\ ~validation.throws /\ ~validation.valid
           /\ vWarned' = Append(vWarned, [reason |-> validation.reason, pos |-> vIdx])
    /\ vIdx' = vIdx + 1
    /\ UNCHANGED <<vPc, vInput, vOutput, varsNotV>>

\* validateSingleToolCall throws: nothing in validateToolCalls catches it
ValidateThrows ==
    /\ vPc = "loop" /\ vIdx <= Len(vInput)
    /\ validateSingleToolCall(vInput[vIdx]).throws
    /\ vPc' = "threw"
    /\ UNCHANGED <<vInput, vIdx, vOutput, vWarned, varsNotV>>

\* return validatedCalls
ValidateReturns ==
    /\ vPc = "loop" /\ vIdx > Len(vInput)
    /\ vPc' = "returned"
    /\ UNCHANGED <<vInput, vIdx, vOutput, vWarned, varsNotV>>

NextValidate ==
    \/ ValidateAccepts
    \/ ValidateRejects
    \/ ValidateThrows
    \/ ValidateReturns

SpecValidate == InitValidate /\ [][NextValidate]_vars

\* the call at position i has been through validateSingleToolCall
Validated(i) == i \in DOMAIN vInput /\ i < vIdx
Warned(i) == \E k \in DOMAIN vWarned : vWarned[k].pos = i
Accepted(i) == Validated(i) /\ ~Warned(i)
ReasonOf(i) == vWarned[CHOOSE k \in DOMAIN vWarned : vWarned[k].pos = i].reason

\* the conditions the specification lists for send_email
SendEmailConditions(p) ==
    /\ ~Falsy(p.to) \/ ~Falsy(p.contactName)
    /\ ~Falsy(p.subject) /\ ~Blank(p.subject)
    /\ ~Falsy(p.body) /\ ~Blank(p.body)
    /\ ~Falsy(p.to) => Includes(p.to, "@")
    /\ ~MatchesCriticalPlaceholder(p.to)

ContainsExampleDomain(value) == value \in {"user@example.com", "USER@EXAMPLE.COM"}

ParseableDate(value) == value \in {"2025-01-01T10:00:00Z", "2025-01-01T11:00:00Z"}

\* C19 (as claimed): validateSingleToolCall accepts a create_calendar_event call
\* only if its title is non-blank and start and end are both present and
\* parseable as dates.
C19_CalendarEventNeedsDates ==
    \A i \in DOMAIN vInput :
        (Accepted(i) /\ vInput[i].name = "create_calendar_event") =>
            /\ ~Falsy(vInput[i].parameters.title) /\ ~Blank(vInput[i].parameters.title)
            /\ ParseableDate(vInput[i].parameters.start)
            /\ ParseableDate(vInput[i].parameters.end)

\* an accepted create_calendar_event call that has a title and no start and no end
C19_AcceptedWithoutDates ==
    /\ vPc = "returned" /\ Len(vInput) = 1
    /\ vInput[1].name = "create_calendar_event"
    /\ vInput[1].parameters.start = Undefined /\ vInput[1].parameters.end = Undefined
    /\ vOutput = vInput

\* the calls validateToolCalls has kept are the input calls it accepted, in the
\* order of the input, with the body of an e-mail rewritten in place
RECURSIVE KeptCalls(_)
KeptCalls(i) ==
    IF i = 0 THEN <<>>
    ELSE KeptCalls(i - 1) \o
         (IF validateSingleToolCall(vInput[i]).valid
          THEN <<validateSingleToolCall(vInput[i]).call>> ELSE <<>>)

\* C20 (as claimed): validateToolCalls never throws, for any list and any
\* parameter values (a to, subject, body or email that is not a string
\* included): it returns the accepted calls, in the order of the input.
C20_NeverThrows ==
    /\ vPc # "threw"
    /\ vPc = "returned" => vOutput = KeptCalls(Len(vInput))

\* validateToolCalls has thrown on the second call, a send_email whose to is a number
C20_ThrewOnNumber ==
    /\ vPc = "threw" /\ vIdx = 2
    /\ vInput[2].name = "send_email" /\ vInput[2].parameters.to = NumberValue

\* the calls parsed from the LLM text of the request that validateSingleToolCall
\* rejects
DroppedCalls ==
    LET parsed == parseEnhancedToolCalls(qReq.llm, qReq.query)
    IN  SelectSeq(parsed, LAMBDA c : ~validateSingleToolCall(c).valid)

ServedByRag ==
    /\ qPc = "responded" /\ qReq.path = "query"
    /\ qReq.query.route \in {"rag", "meeting"}
    /\ ~qReq.llm.error

\* C21 (as claimed): a tool call that validation drops is never executed, and
\* the failure summary of the response returned to the user includes it: the
\* count of failed actions is at least the number of dropped calls.
C21_DroppedCallsAreReported ==
    ServedByRag =>
        /\ \A i \in DOMAIN DroppedCalls, j \in DOMAIN xHanded :
              xHanded[j].call # DroppedCalls[i]
        /\ finalResponse.failures >= Len(DroppedCalls)

\* the only parsed call was dropped, nothing ran, and the response reports no failure
C21_DroppedUnreported ==
    /\ ServedByRag
    /\ Len(DroppedCalls) = 1
    /\ xHanded = <<>> /\ xLog = <<>>
    /\ finalResponse.failures = 0
    /\ finalResponse.llmText

\* the first half of the claim: on the query path no dropped call is executed
C21_DroppedNeverExecuted ==
    ServedByRag =>
        \A i \in DOMAIN DroppedCalls, j \in DOMAIN xHanded :
            xHanded[j].call # DroppedCalls[i]

(***************************************************************************)
(* analyzeQueryIntent as a pure function.  A query is a sequence of words  *)
(* of Vocabulary, joined by single spaces; a keyword or phrase is a        *)
(* sequence of words too.  Confidence is the fraction num / den.           *)
(***************************************************************************)

Vocabulary ==
    {"hello", "show", "all", "contacts", "whenever", "email", "notes", "get",
     "schedule", "with"}

\* the one-word keywords that a word of Vocabulary includes as a substring
KeywordsIn(word) ==
    CASE word = "show" -> {"show", "how"}
      [] word = "whenever" -> {"whenever", "when"}
      [] word = "notes" -> {"notes", "note"}
      [] word = "hello" -> {}
      [] word = "with" -> {}
      [] OTHER -> {word}

IntentTypes ==
    <<"question", "action", "search", "analysis", "creative", "meeting",
      "instruction", "notes", "all_contacts_notes">>

intentKeywords(type) ==
    CASE type = "question" ->
           {<<"who">>, <<"what">>, <<"when">>, <<"where">>, <<"why">>, <<"how">>,
            <<"which">>, <<"?">>}
      [] type = "action" ->
           {<<"schedule">>, <<"send">>, <<"create">>, <<"add">>, <<"update">>,
            <<"delete">>, <<"call">>, <<"email">>, <<"book">>}
      [] type = "search" ->
           {<<"find">>, <<"search">>, <<"lookup">>, <<"show">>, <<"list">>, <<"get">>,
            <<"all">>, <<"contacts">>, <<"display">>, <<"view">>}
      [] type = "analysis" ->
           {<<"analyze">>, <<"compare">>, <<"review">>, <<"summarize">>, <<"report">>}
      [] type = "creative" ->
           {<<"write">>, <<"compose">>, <<"draft">>, <<"generate">>}
      [] type = "meeting" ->
           {<<"meeting">>, <<"schedule">>, <<"calendar">>, <<"appointment">>, <<"book">>,
            <<"call">>, <<"meet">>}
      [] type = "instruction" ->
           {<<"when">>, <<"if">>, <<"whenever">>, <<"every", "time">>,
            <<"please", "always">>, <<"from", "now", "on">>, <<"in", "the", "future">>,
            <<"going", "forward">>}
      [] type = "notes" ->
           {<<"notes">>, <<"note">>, <<"history">>, <<"details">>,
            <<"information", "about">>, <<"tell", "me", "about">>,
            <<"what", "do", "you", "know", "about">>}
      [] type = "all_contacts_notes" ->
           {<<"all", "contacts", "notes">>, <<"show", "all", "contacts", "notes">>,
            <<"contacts", "with", "notes">>, <<"all", "notes">>, <<"everyone", "notes">>}

\* queryLower.includes(keyword)
QueryIncludes(query, keyword) ==
    IF Len(keyword) = 1
    THEN \E i \in DOMAIN query : keyword[1] \in KeywordsIn(query[i])
    ELSE Contains(query, keyword)

\* keywords.filter(keyword => queryLower.includes(keyword)).length
keywordScore(type, query) ==
    Cardinality({ k \in intentKeywords(type) : QueryIncludes(query, k) })

\* conditionalPatterns.some(pattern => pattern.test(query)): with the words of
\* Vocabulary only /whenever\s+.*\s+contact/i can match
matchesConditionalPattern(query) ==
    \E i, j \in DOMAIN query :
        /\ query[i] = "whenever" /\ query[j] = "contacts" /\ j >= i + 2

contactQueries ==
    {<<"all", "contacts">>, <<"show", "contacts">>, <<"list", "contacts">>,
     <<"get", "contacts">>, <<"display", "contacts">>, <<"view", "contacts">>,
     <<"show", "all", "contacts">>, <<"list", "all", "contacts">>,
     <<"get", "all", "contacts">>, <<"display", "all", "contacts">>,
     <<"view", "all", "contacts">>, <<"contacts", "list">>, <<"contact", "list">>,
     <<"my", "contacts">>, <<"hubspot", "contacts">>, <<"show", "me", "contacts">>,
     <<"show", "me", "all", "contacts">>, <<"list", "my", "contacts">>,
     <<"get", "my", "contacts">>, <<"display", "my", "contacts">>,
     <<"view", "my", "contacts">>}

contactNoteQueries ==
    {<<"show", "notes", "for">>, <<"get", "notes", "for">>, <<"notes", "for">>,
     <<"contact", "notes">>, <<"tell", "me", "about">>,
     <<"what", "do", "you", "know", "about">>, <<"information", "about">>,
     <<"history", "for">>, <<"details", "for">>, <<"show", "details", "for">>}

allContactsNotesQueries ==
    {<<"all", "contacts", "notes">>, <<"show", "all", "contacts", "notes">>,
     <<"all", "contacts", "with", "notes">>, <<"contacts", "with", "notes">>,
     <<"show", "me", "all", "notes">>, <<"get", "all", "notes">>,
     <<"list", "all", "contacts", "notes">>, <<"display", "all", "contacts", "notes">>,
     <<"show", "all", "notes", "for", "contacts">>,
     <<"get", "notes", "for", "all", "contacts">>}

SomeIncluded(phrases, query) == \E p \in phrases : Contains(query, p)

\* /(meet|schedule|book).*with.*\b([a-z]+ [a-z]+)\b/i: a word with meet,
\* schedule or book, later "with", and two more words after it
meetingWithMatch(query) ==
    \E i, j \in DOMAIN query :
        /\ query[i] = "schedule" /\ query[j] = "with" /\ i < j
        /\ j + 2 <= Len(query)

\* scores[type] after the boosts
scoreOf(type, query) ==
    keywordScore(type, query)
    + (IF type = "instruction" /\ matchesConditionalPattern(query) THEN 5 ELSE 0)
    + (IF type = "search" /\ SomeIncluded(contactQueries, query) THEN 5 ELSE 0)
    + (IF type = "notes" /\ SomeIncluded(contactNoteQueries, query) THEN 3 ELSE 0)
    + (IF type = "all_contacts_notes" /\ SomeIncluded(allContactsNotesQueries, query)
       THEN 5 ELSE 0)
    + (IF type = "meeting" /\ meetingWithMatch(query) THEN 3 ELSE 0)

\* Math.max(...Object.values(scores))
maxScoreOf(query) ==
    CHOOSE s \in { scoreOf(IntentTypes[k], query) : k \in DOMAIN IntentTypes } :
        \A k \in DOMAIN IntentTypes : scoreOf(IntentTypes[k], query) <= s

\* queryLower.split(' ').length: the empty string splits into one empty word
splitLength(query) == IF query = <<>> THEN 1 ELSE Len(query)

analyzeQueryIntent(query) ==
    LET maxScore == maxScoreOf(query)
        \* Object.keys(scores).find(key => scores[key] === maxScore) || 'general'
        found == { k \in DOMAIN IntentTypes : scoreOf(IntentTypes[k], query) = maxScore }
        intentType == IF found = {} THEN "general"
                      ELSE IntentTypes[CHOOSE k \in found : \A j \in found : k <= j]
    IN  [type |-> intentType,
         confidence |-> IF maxScore > 0
                        THEN [num |-> maxScore, den |-> splitLength(query)]
                        ELSE [num |-> 1, den |-> 10],
         isContactQuery |-> SomeIncluded(contactQueries, query),
         isConditionalInstruction |-> intentType = "instruction"]

RECURSIVE WordSeqs(_)
WordSeqs(n) ==
    IF n = 0 THEN {<<>>}
    ELSE WordSeqs(n - 1) \cup
         { Append(q, w) : q \in {s \in WordSeqs(n - 1) : Len(s) = n - 1}, w \in Vocabulary }

InitIntent ==
    /\ mInstruction = NoResult /\ mContext = NoResult /\ mResult = NoResult
    /\ InitProactiveIdle
    /\ InitTasksIdle
    /\ InitPipelineIdle
    /\ InitLlmIdle
    /\ InitParseIdle
    /\ InitValidateIdle
    /\ InitSearchIdle
    /\ InitWritesIdle
    /\ InitContactsIdle
    /\ iPc = "input" /\ iQuery \in WordSeqs(MaxWords) /\ iResult = NoResult

\* const intent = await analyzeQueryIntent(query)
AnalyzeQueryIntent ==
    /\ iPc = "input"
    /\ iResult' = analyzeQueryIntent(iQuery)
    /\ iPc' = "returned"
    /\ UNCHANGED <<iQuery, varsNotI>>

NextIntent == AnalyzeQueryIntent

SpecIntent == InitIntent /\ [][NextIntent]_vars

\* no keyword, phrase or regex of any category matches the query
NothingMatches ==
    \A k \in DOMAIN IntentTypes : scoreOf(IntentTypes[k], iQuery) = 0

\* C22 (as claimed): analyzeQueryIntent never throws, and for a query in which
\* nothing matches (every category score is 0) it returns type 'general' with
\* confidence 0.1.
C22_NoMatchIsGeneral ==
    (iPc = "returned" /\ NothingMatches) =>
        /\ iResult.type = "general"
        /\ iResult.confidence = [num |-> 1, den |-> 10]

\* for "hello" the intent returned is 'question', with confidence 0.1
C22_NoMatchIsQuestion ==
    /\ iPc = "returned" /\ iQuery = <<"hello">> /\ NothingMatches
    /\ iResult.type = "question"
    /\ iResult.confidence = [num |-> 1, den |-> 10]

\* C23 (as claimed): for every query the confidence returned by
\* analyzeQueryIntent lies in (0, 1]: the score of the winning category, boosts
\* included, never exceeds the word count of the query.
C23_ConfidenceAtMostOne ==
    iPc = "returned" =>
        /\ iResult.confidence.num > 0
        /\ iResult.confidence.num <= iResult.confidence.den

\* "show all contacts": search scores 3 keywords + 5, over 3 words
C23_ConfidenceAboveOne ==
    /\ iPc = "returned" /\ iQuery = <<"show", "all", "contacts">>
    /\ iResult.type = "search"
    /\ iResult.confidence = [num |-> 8, den |-> 3]

(***************************************************************************)
(* searchRelevantContext: the sub-searches are started one after the other *)
(* before the await, finish in any order, and Promise.all resumes the      *)
(* function when the last has finished.  A document is its rank in the     *)
(* result of its search.                                                   *)
(***************************************************************************)

MaxDocuments == 15

Search(limit, filter) ==
    [limit |-> limit, filter |-> filter, status |-> "running", docs |-> <<>>]

\* searches after the pushes, for an intent type
startedSearches(intentType) ==
    <<Search(5, "none")>> \o
    (CASE intentType = "question" -> <<Search(3, "email"), Search(3, "hubspot")>>
       [] intentType = "action" -> <<Search(5, "last 30 days")>>
       [] intentType = "search" -> <<Search(3, "hubspot")>>
       [] OTHER -> <<>>)

\* the rows of one search: count documents, ranked 1..count
rowsOf(count) == [r \in 1..count |-> r]

RECURSIVE flat(_)
flat(searches) ==
    IF searches = <<>> THEN <<>> ELSE Head(searches).docs \o flat(Tail(searches))

RECURSIVE withoutDuplicates(_)
withoutDuplicates(docs) ==
    IF docs = <<>> THEN <<>>
    ELSE LET rest == withoutDuplicates(SubSeq(docs, 1, Len(docs) - 1))
             last == docs[Len(docs)]
         IN  IF \E i \in DOMAIN rest : rest[i] = last THEN rest ELSE Append(rest, last)

\* a merge that removes duplicates
mergeDeduplicated(searches) ==
    LET all == withoutDuplicates(flat(searches))
    IN  SubSeq(all, 1, IF Len(all) < MaxDocuments THEN Len(all) ELSE MaxDocuments)

\* results.flat().slice(0, 15)
mergeResults(searches) ==
    LET all == flat(searches)
    IN  SubSeq(all, 1, IF Len(all) < MaxDocuments THEN Len(all) ELSE MaxDocuments)

InitSearch ==
    /\ mInstruction = NoResult /\ mContext = NoResult /\ mResult = NoResult
    /\ InitProactiveIdle
    /\ InitTasksIdle
    /\ InitPipelineIdle
    /\ InitLlmIdle
    /\ InitParseIdle
    /\ InitValidateIdle
    /\ InitIntentIdle
    /\ InitWritesIdle
    /\ InitContactsIdle
    /\ sPc = "called"
    /\ sIntentType \in {"question", "action", "search", "meeting", "general"}
    /\ sSearches = <<>> /\ sResult = <<>>

\* the pushes of searchRelevantContext, up to await Promise.all(searches)
StartSearches ==
    /\ sPc = "called"
    /\ sSearches' = startedSearches(sIntentType)
    /\ sPc' = "awaiting"
    /\ UNCHANGED <<sIntentType, sResult, varsNotS>>

\* searchSimilarDocuments number i returns the rows of its query, at most LIMIT
SearchReturns(i, count) ==
    /\ sPc = "awaiting" /\ i \in DOMAIN sSearches
    /\ sSearches[i].status = "running"
    /\ count <= sSearches[i].limit
    /\ sSearches' = [sSearches EXCEPT ![i].status = "done", ![i].docs = rowsOf(count)]
    /\ UNCHANGED <<sPc, sIntentType, sResult, varsNotS>>

\* searchSimilarDocuments number i fails: its catch returns []
SearchFails(i) ==
    /\ sPc = "awaiting" /\ i \in DOMAIN sSearches
    /\ sSearches[i].status = "running"
    /\ sSearches' = [sSearches EXCEPT ![i].status = "failed", ![i].docs = <<>>]
    /\ UNCHANGED <<sPc, sIntentType, sResult, varsNotS>>

\* Promise.all has resolved: return results.flat().slice(0, 15)
SearchContextReturns ==
    /\ sPc = "awaiting"
    /\ \A i \in DOMAIN sSearches : sSearches[i].status # "running"
    /\ sResult' = mergeResults(sSearches)
    /\ sPc' = "returned"
    /\ UNCHANGED <<sIntentType, sSearches, varsNotS>>

NextSearch ==
    \/ StartSearches
    \/ \E i \in 1..3, count \in 0..5 : SearchReturns(i, count)
    \/ \E i \in 1..3 : SearchFails(i)
    \/ SearchContextReturns

SpecSearch == InitSearch /\ [][NextSearch]_vars

\* the position in the merged list of document r of search i
PositionOf(i, r) ==
    LET before == { j \in DOMAIN sSearches : j < i }
        RECURSIVE Sum(_)
        Sum(S) == IF S = {} THEN 0
                  ELSE LET j == CHOOSE x \in S : TRUE
                       IN  Len(sSearches[j].docs) + Sum(S \ {j})
    IN  Sum(before) + r

\* C24: searchRelevantContext starts the broad search and the searches of the
\* intent, returns only when every started search has finished, and returns
\* their results concatenated in start order, duplicates kept, at most 15
\* documents; a search that fails contributes no document.
C24_AllSearchesMerged ==
    /\ sPc \in {"awaiting", "returned"} =>
          /\ Len(sSearches) = (CASE sIntentType = "question" -> 3
                                 [] sIntentType \in {"action", "search"} -> 2
                                 [] OTHER -> 1)
          /\ sSearches[1].filter = "none"
    /\ sPc = "returned" =>
          /\ \A i \in DOMAIN sSearches :
                /\ sSearches[i].status # "running"
                /\ sSearches[i].status = "failed" => sSearches[i].docs = <<>>
                /\ \A r \in DOMAIN sSearches[i].docs :
                      PositionOf(i, r) <= MaxDocuments =>
                          /\ PositionOf(i, r) \in DOMAIN sResult
                          /\ sResult[PositionOf(i, r)] = sSearches[i].docs[r]
          /\ Len(sResult) <= MaxDocuments
          /\ Len(sResult) <= PositionOf(Len(sSearches) + 1, 0)

\* three searches: the first returned 5 rows, the second failed, the third
\* returned 3 rows, and the result has the 8 rows with ranks 1, 2, 3 twice
C24_Witness ==
    /\ sPc = "returned" /\ Len(sSearches) = 3
    /\ sSearches[2].status = "failed"
    /\ sResult = <<1, 2, 3, 4, 5, 1, 2, 3>>

\* generateRAGResponse has classified the query of the request as a conditional
\* instruction, and the handler has answered
AnsweredConditionalInstruction ==
    /\ ServedByRag
    /\ qReq.query.intentType = "instruction"

InstructionStoredFor(text) ==
    \E i \in DOMAIN instructions :
        /\ instructions[i].userId = "u1"
        /\ instructions[i].text = <<text>>
        /\ instructions[i].isActive

\* C25 (as claimed): whenever a query submitted to POST /api/query is
\* classified as a conditional instruction, the system stores one active
\* OngoingInstruction with the query text for the user and executes none of
\* the tool calls derived from the response, whichever branch of the handler
\* the query takes.
C25_ConditionalStoredNotExecuted ==
    AnsweredConditionalInstruction =>
        /\ InstructionStoredFor(qReq.query.text)
        /\ xHanded = <<>>

\* in the last branch of the handler the instruction is stored and nothing runs
C25_StoredInDefaultBranch ==
    (AnsweredConditionalInstruction /\ qReq.query.route = "rag") =>
        /\ InstructionStoredFor(qReq.query.text)
        /\ xHanded = <<>>

\* a conditional instruction that is also a meeting scheduling query: nothing
\* is stored and a tool call has been executed
C25_ExecutedInMeetingBranch ==
    /\ AnsweredConditionalInstruction /\ qReq.query.route = "meeting"
    /\ instructions = <<>>
    /\ xHanded # <<>>

(***************************************************************************)
(* The endpoints that write OngoingInstruction rows.  userId is the id of  *)
(* the session that makes the request, id the row id sent by the client.   *)
(***************************************************************************)

Exists(id) == id \in DOMAIN instructions /\ id \notin removed

Write(userId, id, op) ==
    [by |-> userId, owner |-> instructions[id].userId, id |-> id, op |-> op]

\* POST /api/user add_instruction, POST /api/instructions
AddInstruction(userId, text) ==
    /\ Len(instructions) < MaxInstr
    /\ instructions' = Append(instructions,
                              [userId |-> userId, text |-> text, isActive |-> TRUE])
    /\ UNCHANGED <<removed, lastWrite, varsNotW>>

\* PATCH /api/instructions/[id]: findFirst({ id, userId }), then update by id
InstructionsPatch(userId, id, isActive) ==
    /\ Exists(id)
    /\ instructions[id].userId = userId
    /\ instructions' = [instructions EXCEPT ![id].isActive = isActive]
    /\ lastWrite' = Write(userId, id, "update")
    /\ UNCHANGED <<removed, varsNotW>>

\* DELETE /api/instructions/[id]: findFirst({ id, userId }), then delete by id
InstructionsDelete(userId, id) ==
    /\ Exists(id)
    /\ instructions[id].userId = userId
    /\ removed' = removed \cup {id}
    /\ lastWrite' = Write(userId, id, "delete")
    /\ UNCHANGED <<instructions, varsNotW>>

\* POST /api/user toggle_instruction: update({ where: { id: data.id } })
UserToggleInstruction(userId, id, isActive) ==
    /\ Exists(id)
    /\ instructions' = [instructions EXCEPT ![id].isActive = isActive]
    /\ lastWrite' = Write(userId, id, "update")
    /\ UNCHANGED <<removed, varsNotW>>

\* POST /api/user remove_instruction: delete({ where: { id: data.id } })
UserRemoveInstruction(userId, id) ==
    /\ Exists(id)
    /\ removed' = removed \cup {id}
    /\ lastWrite' = Write(userId, id, "delete")
    /\ UNCHANGED <<instructions, varsNotW>>

NextInstructions ==
    \/ \E u \in Users, t \in InstrTexts : AddInstruction(u, t)
    \/ \E u \in Users, id \in 1..MaxInstr, b \in BOOLEAN : InstructionsPatch(u, id, b)
    \/ \E u \in Users, id \in 1..MaxInstr : InstructionsDelete(u, id)
    \/ \E u \in Users, id \in 1..MaxInstr, b \in BOOLEAN : UserToggleInstruction(u, id, b)
    \/ \E u \in Users, id \in 1..MaxInstr : UserRemoveInstruction(u, id)

SpecInstructions == InitProactive /\ [][NextInstructions]_vars

\* C26 (as claimed): every write to the OngoingInstruction table is scoped by
\* the id of the requesting user: on no endpoint can a request of one user
\* update, toggle or delete an instruction that belongs to another user.
C26_WritesScopedByUser ==
    lastWrite # NoResult => lastWrite.by = lastWrite.owner

\* the endpoints of /api/instructions/[id] write only rows of the requester
C26_InstructionsEndpointScoped ==
    [][\A u \in Users, id \in 1..MaxInstr :
          (InstructionsDelete(u, id) \/ \E b \in BOOLEAN : InstructionsPatch(u, id, b))
              => lastWrite'.by = lastWrite'.owner]_vars

\* u2 has deleted an instruction of u1
C26_DeletedByOtherUser ==
    /\ lastWrite # NoResult
    /\ lastWrite.op = "delete" /\ lastWrite.by = "u2" /\ lastWrite.owner = "u1"
    /\ lastWrite.id \in removed

\* C27 (as claimed): when a tool execution fails, its error handler changes the
\* status of the task this execution created and of no other task; a task
\* created by another, still running execution of the same user is left
\* unchanged.
C27_CatchTouchesOwnTaskOnly ==
    [][\A x \in DOMAIN execs :
          CatchFailed(x) =>
              \A t \in DOMAIN tasks : t # execs[x].taskId => tasks'[t] = tasks[t]]_vars

\* the task of an execution that is still awaiting its external call has been
\* marked failed by the error handler of another execution
C27_RunningTaskMarkedFailed ==
    \E x, y \in DOMAIN execs :
        /\ x # y
        /\ execs[x].pc = "calling" /\ execs[x].taskId # 0
        /\ tasks[execs[x].taskId].status = "failed"
        /\ execs[y].pc = "returned" /\ execs[y].taskId # 0
        /\ execs[y].taskId # execs[x].taskId

\* the calls of a list that name the tool schedule_meeting_with_contact
ScheduleCalls(calls) ==
    SelectSeq(calls, LAMBDA c : c.name = "schedule_meeting_with_contact")

\* the text holds no JSON object, so every returned call was synthesized by stage 4
OnlySynthesized ==
    Parsed /\ pQuery # NoResult /\ pResponse.objects = <<>>

\* C30 (as claimed): for one scheduling query stage 4 synthesizes at most one
\* schedule_meeting_with_contact call, also when the response both claims that
\* a tool was executed and looks like a made-up meeting confirmation.
C30_AtMostOneSynthesizedMeeting ==
    OnlySynthesized => Len(ScheduleCalls(pCalls)) <= 1

\* a response that claims execution and reads like a confirmation got two
\* synthesized schedule_meeting_with_contact calls for one scheduling query
C30_MeetingSynthesizedTwice ==
    /\ OnlySynthesized
    /\ pQuery.isMeetingSchedulingQuery
    /\ claimsToolExecution(pResponse) /\ isFakeMeetingResponse(pResponse)
    /\ Len(ScheduleCalls(pCalls)) = 2

(***************************************************************************)
(* SpecChain: the handleProactiveEvent calls that follow tool executions.  *)
(* executeSendEmail and executeCreateCalendarEvent call                    *)
(* handleProactiveEvent without awaiting it; every call started runs to    *)
(* its end on the event loop.                                              *)
(***************************************************************************)
ChainContexts ==
    { c \in Contexts :
        /\ c.data.senderEmail = "x@y.com"
        /\ <<c.event, c.service>> \in
              { <<"email_sent", "gmail">>, <<"event_created", "calendar">> } }

\* executeSendEmail after sendGmailEmail returned an id, executeCreateCalendarEvent
\* after createCalendarEvent returned: handleProactiveEvent({...}).catch(console.error)
RaiseFromExecutor(context) ==
    /\ hChain.raised < MaxCalls
    /\ hChain' = [hChain EXCEPT !.pending = Append(@, context), !.raised = @ + 1]
    /\ UNCHANGED <<instructions, hPc, hCtx, hMatches, hIdx, hExecuted, hActivity, varsNotP>>

\* the body of a handleProactiveEvent call begins
StartHandling ==
    /\ hPc \in {"idle", "done"}
    /\ hChain.pending # <<>>
    /\ hPc' = "find"
    /\ hCtx' = Head(hChain.pending)
    /\ hMatches' = <<>> /\ hIdx' = 1
    /\ hChain' = [hChain EXCEPT !.pending = Tail(@), !.started = @ + 1]
    /\ UNCHANGED <<instructions, hExecuted, hActivity, varsNotP>>

NextChain ==
    \/ \E u \in Users, t \in InstrTexts : CreateInstruction(u, t)
    \/ \E c \in ChainContexts : RaiseFromExecutor(c)
    \/ StartHandling
    \/ FindAndAnalyze
    \/ ExecuteOk
    \/ ExecuteThrows
    \/ LoopExit
    \/ ContextualNone
    \/ CatchError

HandlingStep ==
    \/ StartHandling
    \/ FindAndAnalyze
    \/ ExecuteOk
    \/ LoopExit
    \/ ContextualNone
    \/ CatchError

SpecChain == InitProactive /\ [][NextChain]_vars

\* an async function that was called runs until it returns
SpecChainFair == SpecChain /\ WF_vars(HandlingStep)

\* no handleProactiveEvent call is running or waiting to run
ChainAtRest ==
    hChain.pending = <<>> /\ hPc \in {"idle", "done"}

Senders == {"x@y.com", "c@d.io"}
CreatePaths == {"handleCreateContactFromEmail", "checkCommonEmailScenarios",
                "checkAndCreateHubSpotContact"}

Contact(userId, email) == [userId |-> userId, email |-> email]

\* searchHubSpotContact(userId, email): the contacts of the user with this email
searchHubSpotContact(userId, email) ==
    SelectSeq(contacts, LAMBDA c : c = Contact(userId, email))

InitContacts ==
    /\ mInstruction = NoResult /\ mContext = NoResult /\ mResult = NoResult
    /\ InitProactiveIdle
    /\ InitTasksIdle
    /\ InitPipelineIdle
    /\ InitLlmIdle
    /\ InitParseIdle
    /\ InitValidateIdle
    /\ InitIntentIdle
    /\ InitSearchIdle
    /\ InitWritesIdle
    /\ InitContactsIdle

\* a new-email event reaches one of the three places; the search is sent
NewEmail(path, userId, email) ==
    /\ Len(cInv) < MaxRequests
    /\ cInv' = Append(cInv, [path |-> path, userId |-> userId, email |-> email,
                             pc |-> "searching"])
    /\ UNCHANGED <<contacts, createCalls, varsNotC>>

\* the search returns: with a hit the invocation returns, without one it
\* calls createHubSpotContact
SearchContactReturns(i) ==
    /\ i \in DOMAIN cInv
    /\ cInv[i].pc = "searching"
    /\ IF Len(searchHubSpotContact(cInv[i].userId, cInv[i].email)) > 0
       THEN /\ cInv' = [cInv EXCEPT ![i].pc = "exists"]
            /\ UNCHANGED createCalls
       ELSE /\ cInv' = [cInv EXCEPT ![i].pc = "creating"]
            /\ createCalls' = Append(createCalls,
                                     Contact(cInv[i].userId, cInv[i].email))
    /\ UNCHANGED <<contacts, varsNotC>>

\* the search request fails: the error leaves the invocation
SearchContactThrows(i) ==
    /\ i \in DOMAIN cInv
    /\ cInv[i].pc = "searching"
    /\ cInv' = [cInv EXCEPT ![i].pc = "failed"]
    /\ UNCHANGED <<contacts, createCalls, varsNotC>>

\* POST /crm/v3/objects/contacts answers ok: the contact exists from now on
CreateContactReturns(i) ==
    /\ i \in DOMAIN cInv
    /\ cInv[i].pc = "creating"
    /\ contacts' = Append(contacts, Contact(cInv[i].userId, cInv[i].email))
    /\ cInv' = [cInv EXCEPT ![i].pc = "created"]
    /\ UNCHANGED <<createCalls, varsNotC>>

\* the response is not ok: createHubSpotContact throws
CreateContactThrows(i) ==
    /\ i \in DOMAIN cInv
    /\ cInv[i].pc = "creating"
    /\ cInv' = [cInv EXCEPT ![i].pc = "failed"]
    /\ UNCHANGED <<contacts, createCalls, varsNotC>>

NextContacts ==
    \/ \E p \in CreatePaths, u \in Users, e \in Senders : NewEmail(p, u, e)
    \/ \E i \in 1..MaxRequests : SearchContactReturns(i)
    \/ \E i \in 1..MaxRequests : SearchContactThrows(i)
    \/ \E i \in 1..MaxRequests : CreateContactReturns(i)
    \/ \E i \in 1..MaxRequests : CreateContactThrows(i)

SpecContacts == InitContacts /\ [][NextContacts]_vars

\* C28 (as claimed): for one user and one sender email createHubSpotContact is
\* called at most once, under any interleaving of the new-email events of
\* that sender.
C28_CreateCalledAtMostOnce ==
    \A i, j \in DOMAIN createCalls : createCalls[i] = createCalls[j] => i = j

\* two invocations for the same user and sender have both found no contact and
\* are both awaiting createHubSpotContact
C28_TwoCreatesInFlight ==
    \E i, j \in DOMAIN cInv :
        /\ i # j
        /\ cInv[i].userId = cInv[j].userId /\ cInv[i].email = cInv[j].email
        /\ cInv[i].pc = "creating" /\ cInv[j].pc = "creating"
        /\ contacts = <<>>

====
